---- MODULE Spec2Model ----
(***************************************************************************)
(* piebash: runtime acquisition and self-healing execution.                *)
(*                                                                         *)
(* Texts (error messages, file names, child output) are sequences of       *)
(* segments.  A segment is either noise or one match of one of the         *)
(* detector's regular expressions together with its capture group; the     *)
(* capture is kept as the sequence of its separator-delimited parts        *)
(* ('.' for python/java, "::" for rust, '/' for perl, '\' for php).        *)
(***************************************************************************)
EXTENDS Integers, Sequences, FiniteSets, TLC

Seg(pat, cap) == [pat |-> pat, cap |-> cap]

Noise(s) == Seg("noise", <<s>>)

RECURSIVE Join(_, _)
Join(parts, sep) ==
    IF parts = <<>> THEN ""
    ELSE IF Len(parts) = 1 THEN parts[1]
    ELSE parts[1] \o sep \o Join(Tail(parts), sep)

(* regex.captures_iter(output): the captures of the matches of one pattern, *)
(* in text order.                                                           *)
captures_iter(pat, output) ==
    LET hits == SelectSeq(output, LAMBDA s : s.pat = pat)
    IN  [i \in 1..Len(hits) |-> hits[i].cap]

MissingDependency(language, package, package_manager) ==
    [language |-> language, package |-> package, package_manager |-> package_manager]

HasPackage(deps, package) == \E i \in 1..Len(deps) : deps[i].package = package

(***************************************************************************)
(* DependencyDetector helpers                                              *)
(***************************************************************************)
PythonMapping ==
    <<  <<"PIL", "Pillow">>, <<"cv2", "opencv-python">>, <<"sklearn", "scikit-learn">>,
        <<"yaml", "PyYAML">>, <<"bs4", "beautifulsoup4">>, <<"dateutil", "python-dateutil">>,
        <<"dotenv", "python-dotenv">>, <<"sqlalchemy", "SQLAlchemy">>, <<"redis", "redis">>,
        <<"pymongo", "pymongo">>, <<"psycopg2", "psycopg2-binary">> >>

python_import_to_package_first_segment(import_name) == import_name[1]

(* import_name == import || import_name.starts_with(import + ".") holds     *)
(* exactly when the first dotted part of import_name is import.             *)
python_import_to_package(import_name) ==
    LET hit == {i \in 1..Len(PythonMapping) : import_name[1] = PythonMapping[i][1]}
    IN  IF hit # {}
        THEN PythonMapping[CHOOSE i \in hit : \A j \in hit : i <= j][2]
        ELSE import_name[1]

NodeCoreModules ==
    { "assert", "buffer", "child_process", "cluster", "crypto",
      "dgram", "dns", "domain", "events", "fs", "http", "https",
      "net", "os", "path", "punycode", "querystring", "readline",
      "repl", "stream", "string_decoder", "timers", "tls", "tty",
      "url", "util", "v8", "vm", "zlib" }

is_node_core_module_never(module) == FALSE

is_node_core_module(module) == module \in NodeCoreModules

(***************************************************************************)
(* DependencyDetector: one parser per ecosystem.  <<>> encodes None: the   *)
(* parsers return Some(deps) only for a non-empty deps.                    *)
(***************************************************************************)
RECURSIVE PushAll(_, _, _, _)
PushAll(deps, packages, language, pm) ==
    IF packages = <<>> THEN deps
    ELSE PushAll(Append(deps, MissingDependency(language, Head(packages), pm)),
                 Tail(packages), language, pm)

RECURSIVE PushNew(_, _, _, _)
PushNew(deps, packages, language, pm) ==
    IF packages = <<>> THEN deps
    ELSE PushNew(IF HasPackage(deps, Head(packages)) THEN deps
                 ELSE Append(deps, MissingDependency(language, Head(packages), pm)),
                 Tail(packages), language, pm)

parse_python_error(output) ==
    LET c1 == captures_iter("py_module_not_found", output)
        c2 == captures_iter("py_import_from", output)
        p1 == [i \in 1..Len(c1) |-> python_import_to_package(c1[i])]
        p2 == [i \in 1..Len(c2) |-> python_import_to_package(c2[i])]
    IN  PushNew(PushAll(<<>>, p1, "python", "pip"), p2, "python", "pip")

parse_node_error(output) ==
    LET c1 == captures_iter("node_cannot_find_module", output)
        c2 == captures_iter("node_cant_resolve", output)
        m1 == SelectSeq([i \in 1..Len(c1) |-> c1[i][1]], LAMBDA m : ~is_node_core_module(m))
        m2 == SelectSeq([i \in 1..Len(c2) |-> c2[i][1]], LAMBDA m : ~is_node_core_module(m))
    IN  PushNew(PushAll(<<>>, m1, "node", "npm"), m2, "node", "npm")

parse_ruby_error(output) ==
    LET c1 == captures_iter("ruby_cannot_load", output)
    IN  PushAll(<<>>, [i \in 1..Len(c1) |-> c1[i][1]], "ruby", "gem")

parse_go_error(output) ==
    LET c1 == captures_iter("go_not_in_goroot", output)
        c2 == captures_iter("go_no_required_module", output)
    IN  PushNew(PushAll(<<>>, [i \in 1..Len(c1) |-> c1[i][1]], "go", "go"),
                [i \in 1..Len(c2) |-> c2[i][1]], "go", "go")

parse_rust_error(output) ==
    LET c1 == captures_iter("rust_unresolved_import", output)
    IN  PushAll(<<>>, [i \in 1..Len(c1) |-> c1[i][1]], "rust", "cargo")

IsPrefix(p, s) == Len(p) <= Len(s) /\ SubSeq(s, 1, Len(p)) = p

JavaMappings ==
    <<  << <<"com", "google", "gson">>, "com.google.code.gson:gson:2.10" >>,
        << <<"org", "json">>, "org.json:json:20230227" >>,
        << <<"com", "fasterxml", "jackson">>,
           "com.fasterxml.jackson.core:jackson-databind:2.15.0" >> >>

(* package.starts_with(pkg), taken on whole dotted parts.                   *)
java_package_to_maven(package) ==
    LET hit == {i \in 1..Len(JavaMappings) : IsPrefix(JavaMappings[i][1], package)}
    IN  IF hit # {}
        THEN JavaMappings[CHOOSE i \in hit : \A j \in hit : i <= j][2]
        ELSE Join(package, ".") \o ":" \o package[Len(package)] \o ":LATEST"

parse_java_error(output) ==
    LET c1 == captures_iter("java_package_missing", output)
    IN  PushAll(<<>>, [i \in 1..Len(c1) |-> java_package_to_maven(c1[i])], "java", "maven")

PhpMappings ==
    <<  <<"Monolog", "monolog/monolog">>, <<"Symfony", "symfony/symfony">>,
        <<"Guzzle", "guzzlehttp/guzzle">>, <<"PHPUnit", "phpunit/phpunit">> >>

(* str::to_lowercase on the names the model draws class names from.         *)
to_lowercase(s) ==
    CASE s = "Monolog" -> "monolog"
      [] s = "Carbon" -> "carbon"
      [] s = "Twig" -> "twig"
      [] OTHER -> s

(* class.starts_with("Ns\\"): the first part is Ns and another part follows. *)
php_class_to_package(class) ==
    LET hit == {i \in 1..Len(PhpMappings) :
                    class[1] = PhpMappings[i][1] /\ Len(class) > 1}
    IN  IF hit # {}
        THEN PhpMappings[CHOOSE i \in hit : \A j \in hit : i <= j][2]
        ELSE to_lowercase(class[1])

parse_php_error(output) ==
    LET c1 == captures_iter("php_class_not_found", output)
    IN  PushAll(<<>>, [i \in 1..Len(c1) |-> php_class_to_package(c1[i])], "php", "composer")

parse_perl_error(output) ==
    LET c1 == captures_iter("perl_cant_locate", output)
    IN  PushAll(<<>>, [i \in 1..Len(c1) |-> Join(c1[i], "::")], "perl", "cpan")

parse_error(language, stderr) ==
    CASE language = "python" -> parse_python_error(stderr)
      [] language \in {"node", "nodejs"} -> parse_node_error(stderr)
      [] language = "ruby" -> parse_ruby_error(stderr)
      [] language = "go" -> parse_go_error(stderr)
      [] language = "rust" -> parse_rust_error(stderr)
      [] language = "java" -> parse_java_error(stderr)
      [] language = "php" -> parse_php_error(stderr)
      [] language = "perl" -> parse_perl_error(stderr)
      [] OTHER -> <<>>

(***************************************************************************)
(* Language registry and platform                                          *)
(***************************************************************************)
ArchiveFile(stem, ext) == [stem |-> stem, ext |-> ext]

DownloadInfo(base, stem, ext) ==
    [url |-> [base |-> base, file |-> ArchiveFile(stem, ext)], sha256 |-> ""]

PlatformKeys == {"linux-x86_64", "windows-x86_64", "darwin-x86_64"}

PythonDownloads ==
    [k \in PlatformKeys |->
        LET base == "https://github.com/indygreg/python-build-standalone/releases/download/20231002"
        IN  CASE k = "linux-x86_64" ->
                    DownloadInfo(base, "cpython-3.11.6+20231002-x86_64-unknown-linux-gnu-install_only.tar", "gz")
              [] k = "windows-x86_64" ->
                    DownloadInfo(base, "cpython-3.11.6+20231002-x86_64-pc-windows-msvc-install_only.tar", "gz")
              [] k = "darwin-x86_64" ->
                    DownloadInfo(base, "cpython-3.11.6+20231002-x86_64-apple-darwin-install_only.tar", "gz")]

NodeDownloads ==
    [k \in PlatformKeys |->
        LET base == "https://nodejs.org/dist/v20.10.0"
        IN  CASE k = "linux-x86_64" -> DownloadInfo(base, "node-v20.10.0-linux-x64.tar", "xz")
              [] k = "windows-x86_64" -> DownloadInfo(base, "node-v20.10.0-win-x64", "zip")
              [] k = "darwin-x86_64" -> DownloadInfo(base, "node-v20.10.0-darwin-x64.tar", "gz")]

GoDownloads ==
    [k \in PlatformKeys |->
        LET base == "https://go.dev/dl"
        IN  CASE k = "linux-x86_64" -> DownloadInfo(base, "go1.21.5.linux-amd64.tar", "gz")
              [] k = "windows-x86_64" -> DownloadInfo(base, "go1.21.5.windows-amd64", "zip")
              [] k = "darwin-x86_64" -> DownloadInfo(base, "go1.21.5.darwin-amd64.tar", "gz")]

RustDownloads ==
    [k \in PlatformKeys |->
        LET base == "https://static.rust-lang.org/dist"
        IN  CASE k = "linux-x86_64" -> DownloadInfo(base, "rust-1.75.0-x86_64-unknown-linux-gnu.tar", "gz")
              [] k = "windows-x86_64" -> DownloadInfo(base, "rust-1.75.0-x86_64-pc-windows-msvc.tar", "gz")
              [] k = "darwin-x86_64" -> DownloadInfo(base, "rust-1.75.0-x86_64-apple-darwin.tar", "gz")]

RubyDownloads ==
    [k \in PlatformKeys |->
        CASE k = "windows-x86_64" ->
                DownloadInfo("https://github.com/oneclick/rubyinstaller2/releases/download/RubyInstaller-3.2.2-1",
                             "rubyinstaller-3.2.2-1-x64", "7z")
          [] OTHER -> DownloadInfo("https://cache.ruby-lang.org/pub/ruby/3.2", "ruby-3.2.2.tar", "gz")]

LanguageDefinition(name, version, executable, downloads) ==
    [name |-> name, version |-> version, executable |-> executable, downloads |-> downloads]

Registry ==
    [l \in {"python", "node", "go", "rust", "ruby"} |->
        CASE l = "python" -> LanguageDefinition("Python", "3.11.6", "python", PythonDownloads)
          [] l = "node" -> LanguageDefinition("Node.js", "20.10.0", "node", NodeDownloads)
          [] l = "go" -> LanguageDefinition("Go", "1.21.5", "go", GoDownloads)
          [] l = "rust" -> LanguageDefinition("Rust", "1.75.0", "rustc", RustDownloads)
          [] l = "ruby" -> LanguageDefinition("Ruby", "3.2.2", "ruby", RubyDownloads)]

(* get_language / get_download_url: the Result as [ok, val]                 *)
get_language(name) ==
    IF name \in DOMAIN Registry THEN [ok |-> TRUE, val |-> Registry[name]]
    ELSE [ok |-> FALSE, val |-> "Language not found"]

get_download_url_any_platform(lang_def, plat) ==
    [ok |-> TRUE,
     val |-> lang_def.downloads[IF plat \in DOMAIN lang_def.downloads THEN plat
                                ELSE "linux-x86_64"]]

get_download_url(lang_def, plat) ==
    IF plat \in DOMAIN lang_def.downloads
    THEN [ok |-> TRUE, val |-> lang_def.downloads[plat]]
    ELSE [ok |-> FALSE, val |-> "No download available for platform"]

(* detect_platform: format!("{}-{}", OS, ARCH) for the hosts modelled; Rust's *)
(* std::env::consts::OS is "macos" on macOS.                                  *)
HostPlatforms == {"linux-x86_64", "macos-x86_64"}

(***************************************************************************)
(* Files                                                                   *)
(***************************************************************************)
Absent == "absent"

(* What an HTTP response for an archive URL can carry: a distribution with   *)
(* its executable under bin/ ("good") or at the top ("flat"), one whose      *)
(* executable does not run ("broken"), one with no executable at a candidate *)
(* path ("noexe"), or bytes that do not unpack ("corrupt").                  *)
ServerContents == {"good", "flat", "broken", "noexe", "corrupt"}

(* A file being written is "partial" until the stream completes.            *)
Partial == "partial"

(* format!("{:x}", Sha256(contents)): distinct contents, distinct digests.  *)
Sha256(contents) == "sha256:" \o contents

verify_checksum_skipped(contents, expected) == TRUE

verify_checksum(contents, expected) ==
    IF expected = "" THEN TRUE ELSE Sha256(contents) = expected

(* A runtime directory: whether it exists and the state of the file at each *)
(* candidate path of find_executable ("none", "runnable" or "broken").       *)
NoDir == [exists |-> FALSE, bin |-> "none", root |-> "none"]

EmptyDir == [exists |-> TRUE, bin |-> "none", root |-> "none"]

(* Unpacking contents over a directory; a failed unpack may have written     *)
(* leading entries (written |-> TRUE) before it failed.                      *)
Unpack(dir, contents, written) ==
    LET d == [dir EXCEPT !.exists = TRUE]
    IN  CASE contents = "good" -> [ok |-> TRUE, dir |-> [d EXCEPT !.bin = "runnable"]]
          [] contents = "flat" -> [ok |-> TRUE, dir |-> [d EXCEPT !.root = "runnable"]]
          [] contents = "broken" -> [ok |-> TRUE, dir |-> [d EXCEPT !.bin = "broken"]]
          [] contents = "noexe" -> [ok |-> TRUE, dir |-> d]
          [] OTHER -> [ok |-> FALSE,
                       dir |-> IF written /\ contents # Absent
                               THEN [d EXCEPT !.bin = "broken"] ELSE d]

SupportedExtensions == {"zip", "gz", "tgz", "xz"}

(* RuntimeInstaller::install: create_dir_all(dest), dispatch on extension.  *)
install(archive, contents, dir, written) ==
    IF archive.ext \in SupportedExtensions
    THEN Unpack(dir, contents, written)
    ELSE [ok |-> FALSE, dir |-> [dir EXCEPT !.exists = TRUE]]

(* Directory names under runtimes/ are kept as their '-'-separated parts.   *)
RuntimeDirName(lang, version) == <<lang, version>>

find_executable(dirname, dir) ==
    IF dir.exists /\ dir.bin # "none" THEN [ok |-> TRUE, val |-> <<dirname, "bin">>]
    ELSE IF dir.exists /\ dir.root # "none" THEN [ok |-> TRUE, val |-> <<dirname, "root">>]
    ELSE [ok |-> FALSE, val |-> "Could not find executable"]

RuntimeInfo(lang, version, path, executable) ==
    [language |-> lang, version |-> version, path |-> path, executable |-> executable]

(* A part of a file name holding bytes that are not valid UTF-8: to_str() of *)
(* such a name is None.                                                      *)
NotUtf8 == "<FF>"

(* parse_runtime_dir: Ok(Some(info)) as {info}, Ok(None) as {}; Err for a    *)
(* name that is not valid UTF-8.                                             *)
parse_runtime_dir(dirname, dir) ==
    IF \E i \in 1..Len(dirname) : dirname[i] = NotUtf8
    THEN [ok |-> FALSE, val |-> "Invalid runtime directory name"]
    ELSE IF Len(dirname) < 2 THEN [ok |-> TRUE, val |-> {}]
    ELSE LET lang == dirname[1]
             version == Join(Tail(dirname), "-")
             def == get_language(lang)
             exe == IF def.ok THEN find_executable(dirname, dir)
                    ELSE [ok |-> FALSE, val |-> ""]
         IN  [ok |-> TRUE,
              val |-> IF def.ok /\ exe.ok
                      THEN {RuntimeInfo(lang, version, dirname, exe.val)} ELSE {}]

(***************************************************************************)
(* Bounds and input sets                                                   *)
(***************************************************************************)
MaxAttempts == 4

(* Languages that reach the retry loop: ensure_runtime fails for a language *)
(* the registry does not list.  rust stands for the languages whose         *)
(* packages auto_install_dependency cannot install.                         *)
ExecLanguages == {"python", "node", "rust"}

PrimaryPat(lang) ==
    CASE lang = "python" -> "py_module_not_found"
      [] lang = "node" -> "node_cannot_find_module"
      [] lang = "rust" -> "rust_unresolved_import"

(* Two import names per language; python's second goes through the table.   *)
CiteCap(lang, k) ==
    CASE lang = "python" -> IF k = 1 THEN <<"requests", "adapters">> ELSE <<"cv2">>
      [] lang = "node" -> IF k = 1 THEN <<"express">> ELSE <<"lodash">>
      [] lang = "rust" -> IF k = 1 THEN <<"serde", "de">> ELSE <<"rand">>

Cite(lang, k) == Seg(PrimaryPat(lang), CiteCap(lang, k))

PkgA(lang) == parse_error(lang, <<Cite(lang, 1)>>)[1].package

PkgB(lang) == parse_error(lang, <<Cite(lang, 2)>>)[1].package

NoPackage == "<none>"

(* What the executed program does on one run: its exit status and what it   *)
(* writes to its standard error.                                            *)
ChildOutcomes(lang) ==
    {[ok |-> TRUE, stderr |-> <<>>]} \cup
    {[ok |-> FALSE, stderr |-> t] :
        t \in {<<Noise("Traceback")>>, <<Cite(lang, 1)>>, <<Cite(lang, 2)>>}}

(* File names of the file form; a file name is arbitrary text and can       *)
(* itself contain what the detector's patterns match.                       *)
FileNames(lang) ==
    { <<Noise("script")>>, <<Cite(lang, 1)>>, <<Cite(lang, 1), Cite(lang, 2)>>,
      <<Cite(lang, 1), Cite(lang, 1)>>, <<Cite(lang, 1), Cite(lang, 1), Cite(lang, 1)>> }

Commands(lang) ==
    {[form |-> "inline", file |-> <<>>]} \cup
    {[form |-> "file", file |-> f] : f \in FileNames(lang)}

(***************************************************************************)
(* Inputs of direct parse_error calls                                      *)
(***************************************************************************)
MaxText == 2

DetLanguages ==
    {"python", "node", "nodejs", "ruby", "go", "rust", "java", "php", "perl", "lua"}

(* The patterns each parser searches for, first pattern first.               *)
DetPatterns(lang) ==
    CASE lang = "python" -> <<"py_module_not_found", "py_import_from">>
      [] lang \in {"node", "nodejs"} -> <<"node_cannot_find_module", "node_cant_resolve">>
      [] lang = "ruby" -> <<"ruby_cannot_load">>
      [] lang = "go" -> <<"go_not_in_goroot", "go_no_required_module">>
      [] lang = "rust" -> <<"rust_unresolved_import">>
      [] lang = "java" -> <<"java_package_missing">>
      [] lang = "php" -> <<"php_class_not_found">>
      [] lang = "perl" -> <<"perl_cant_locate">>
      [] OTHER -> <<"py_module_not_found">>

(* Names that a message can cite, as the parts of the capture.  For node the *)
(* second pattern is drawn from a few names only.                            *)
DetCaptures(lang, pat) ==
    CASE lang = "python" ->
            {<<PythonMapping[i][1]>> : i \in 1..Len(PythonMapping)} \cup
            { <<"PIL", "Image">>, <<"sklearn", "utils">>, <<"requests">>,
              <<"requests", "adapters">>, <<"yamlloader">> }
      [] lang \in {"node", "nodejs"} ->
            IF pat = "node_cannot_find_module"
            THEN {<<m>> : m \in NodeCoreModules} \cup {<<"express">>, <<"node:fs">>}
            ELSE {<<"fs">>, <<"path">>, <<"react">>, <<"express">>}
      [] lang = "ruby" -> {<<"sinatra">>, <<"rails">>}
      [] lang = "go" -> {<<"example.com/foo">>, <<"github.com/gin-gonic/gin">>}
      [] lang = "rust" -> {<<"serde">>, <<"serde", "de">>, <<"rand">>}
      [] lang = "java" ->
            { <<"com", "google", "gson">>, <<"com", "google", "gson", "reflect">>,
              <<"org", "json">>, <<"org", "apache", "commons">> }
      [] lang = "php" -> {<<"Monolog", "Logger">>, <<"Monolog">>, <<"Carbon", "Carbon">>, <<"Twig">>}
      [] lang = "perl" -> {<<"LWP", "UserAgent">>, <<"JSON">>}
      [] OTHER -> {<<"requests">>}

DetSegments(lang) ==
    {Noise("text")} \cup
    UNION {{Seg(DetPatterns(lang)[i], c) : c \in DetCaptures(lang, DetPatterns(lang)[i])} :
                i \in 1..Len(DetPatterns(lang))}

(***************************************************************************)
(* State                                                                   *)
(***************************************************************************)
VARIABLES
    language,            \* execute's language argument
    command,             \* execute's command argument
    script,              \* the child's outcome on each successive attempt
    pc,                  \* position of the execute call
    attempt,
    installed_packages,
    last_error_package,
    stuck_count,
    result,              \* the last execute_inline / execute_file result
    deps,                \* parse_error's result for the failure in hand
    dep_i,               \* position of the for loop over deps
    any_new,
    outcome,             \* what execute returned
    summary,             \* the success summary printed
    attempts_log,        \* history: one record per attempt
    install_log          \* history: one record per auto_install_dependency call

execVars ==
    << language, command, script, pc, attempt, installed_packages, last_error_package,
       stuck_count, result, deps, dep_i, any_new, outcome, summary, attempts_log,
       install_log >>

VARIABLES
    platform,       \* the host's detect_platform() value
    cache,          \* <base>/cache: file name -> contents or Absent
    runtimes,       \* <base>/runtimes: directory name -> directory
    installed,      \* RuntimeManager.installed: language -> RuntimeInfo
    mpc,            \* per caller: position in ensure_runtime / download
    call,           \* per caller: arguments and locals of the call in hand
    ret,            \* per caller: what the last call returned
    io,             \* per caller: I/O done by the call in hand
    returned,       \* language -> RuntimeInfo last returned since the process started
    calls_made,
    restarts,
    lock            \* who holds the index's RwLock: the readers and the writer

mgrVars ==
    << platform, cache, runtimes, installed, mpc, call, ret, io, returned, calls_made,
       restarts, lock >>

VARIABLES
    det_language,   \* parse_error's language argument
    det_stderr,     \* parse_error's stderr argument
    det_deps,       \* what parse_error returned (<<>> for None)
    det_pc

detVars == << det_language, det_stderr, det_deps, det_pc >>

VARIABLES
    inst_archive,   \* install's archive argument: the file's name and what it holds
    inst_dest,      \* the file tree at install's dest argument
    inst_outside,   \* files written outside dest
    inst_ret,       \* what install returned
    inst_pc

instVars == << inst_archive, inst_dest, inst_outside, inst_ret, inst_pc >>

VARIABLES
    env_language,   \* set_runtime_env's language argument
    env_overlay,    \* whether the language's directory under env_path exists
    env_ambient,    \* the executor's own environment: variable -> list of paths
    env_child,      \* the environment the child is spawned with
    env_pc

envVars == << env_language, env_overlay, env_ambient, env_child, env_pc >>

VARIABLES
    pm_dep,         \* auto_install_dependency's dep argument
    pm_files,       \* the package-manager executables that exist, by path
    pm_ret,         \* what auto_install_dependency returned, and the program it ran
    pm_pc

pmVars == << pm_dep, pm_files, pm_ret, pm_pc >>

pureVars == << detVars, instVars, envVars, pmVars >>

vars == << execVars, mgrVars, pureVars >>

(***************************************************************************)
(* Runtime manager and downloader state                                    *)
(***************************************************************************)
MaxCalls == 3

MaxRestarts == 1

Callers == {"c1", "c2"}

RequestLanguages == {"python", "node", "lua"}

DirNames == {RuntimeDirName(l, Registry[l].version) : l \in RequestLanguages \cap DOMAIN Registry}

CacheFiles ==
    {Registry[l].downloads[k].url.file :
        l \in RequestLanguages \cap DOMAIN Registry, k \in PlatformKeys}

NoCall ==
    [language |-> "", from |-> "", url |-> [base |-> "", file |-> ArchiveFile("", "")],
     expected |-> "", entry |-> Absent, fetched |-> Absent, streamed |-> FALSE,
     executable |-> <<>>, indexed |-> FALSE, inflight |-> FALSE, prior |-> {}]

NoRet == [done |-> FALSE, ok |-> FALSE, val |-> <<>>]

NoLock == [readers |-> {}, writer |-> "none"]

NoIo == [fetch |-> 0, delete |-> 0, write |-> 0, extract |-> 0, probe |-> 0]

InsertOnly(map, key, val) == [k \in {key} |-> val]

(* HashMap::insert *)
Insert(map, key, val) ==
    [k \in DOMAIN map \cup {key} |-> IF k = key THEN val ELSE map[k]]

(* scan_installed: every directory that parses is inserted under its         *)
(* language, in read_dir order; a later insert for a language replaces an    *)
(* earlier one.                                                              *)
ScanResults(dirs) ==
    LET parsed == {parse_runtime_dir(n, dirs[n]) : n \in DOMAIN dirs}
        found == UNION {r.val : r \in {p \in parsed : p.ok}}
        langs == {i.language : i \in found}
    IN  {m \in [langs -> found] : \A l \in langs : m[l].language = l}

(* scan_installed as a Result: `parse_runtime_dir(..).await?` returns the    *)
(* error of the first directory entry whose parse fails; otherwise Ok with   *)
(* one of the indexes the read_dir order can give.                           *)
scan_installed(dirs) ==
    IF \E n \in DOMAIN dirs : dirs[n].exists /\ ~parse_runtime_dir(n, dirs[n]).ok
    THEN [ok |-> FALSE, val |-> "Invalid runtime directory name"]
    ELSE [ok |-> TRUE, val |-> ScanResults(dirs)]

(* A fresh base directory; RuntimeManager::new() has scanned it.             *)
MgrFresh ==
    /\ cache = [f \in CacheFiles |-> Absent]
    /\ runtimes = [n \in DirNames |-> NoDir]
    /\ installed \in ScanResults(runtimes)
    /\ mpc = [c \in Callers |-> "idle"]
    /\ call = [c \in Callers |-> NoCall]
    /\ ret = [c \in Callers |-> NoRet]
    /\ io = [c \in Callers |-> NoIo]
    /\ returned = << >>
    /\ calls_made = 0
    /\ restarts = 0
    /\ lock = NoLock

(* No parse_error call and no install call in hand.                          *)
DetParked ==
    /\ det_language = "python"
    /\ det_stderr = <<>>
    /\ det_deps = <<>>
    /\ det_pc = "parked"

NoDest == [exists |-> FALSE, tree |-> <<>>]

NoInstRet == [ok |-> FALSE, error |-> "", extractor |-> "none"]

InstParked ==
    /\ inst_archive = [name |-> <<>>, format |-> "other", entries |-> <<>>]
    /\ inst_dest = NoDest
    /\ inst_outside = {}
    /\ inst_ret = NoInstRet
    /\ inst_pc = "parked"

(* Variables a child's module search path can come from; an unset or empty   *)
(* variable is the empty list.                                               *)
SearchVars == {"PYTHONPATH", "NODE_PATH", "GEM_HOME", "GOPATH"}

NoEnv == [v \in SearchVars |-> <<>>]

(* No child being spawned.                                                   *)
EnvParked ==
    /\ env_language = "python"
    /\ env_overlay = FALSE
    /\ env_ambient = NoEnv
    /\ env_child = NoEnv
    /\ env_pc = "parked"

NoPmRet == [ok |-> FALSE, error |-> "", ran |-> <<>>]

(* No auto_install_dependency call in hand.                                  *)
PmParked ==
    /\ pm_dep = MissingDependency("node", "", "npm")
    /\ pm_files = {}
    /\ pm_ret = NoPmRet
    /\ pm_pc = "parked"

(***************************************************************************)
(* CodeExecutor                                                            *)
(***************************************************************************)
Ok == [ok |-> TRUE, text |-> <<>>]

Err(text) == [ok |-> FALSE, text |-> text]

(* The child inherits stdin, stdout and stderr; only its exit status comes  *)
(* back to the executor.                                                    *)
execute_inline(child) ==
    IF child.ok THEN Ok
    ELSE Err(<<Noise("Execution failed with exit code: Some(1)")>>)

execute_file(file, exists, child) ==
    IF ~exists THEN Err(<<Noise("File not found: ")>> \o file)
    ELSE IF child.ok THEN Ok
    ELSE Err(<<Noise("Execution failed with exit code: Some(1)")>>)

(* format!("{:?}", e) *)
error_msg(e) == e.text

StuckThresholdLax == 2 + 1

StuckThreshold == 2

AlreadyInstalledNever(package) == FALSE

AlreadyInstalled(package) == package \in installed_packages

(* auto_install_dependency: the languages it can install for may succeed or *)
(* fail; any other language bails.                                          *)
InstallOutcomes(lang) ==
    IF lang \in {"python", "node", "ruby", "go"} THEN BOOLEAN ELSE {FALSE}

NoOutcome == [returned |-> FALSE, ok |-> FALSE, attempt |-> 0, text |-> <<>>]

ReturnOk == [returned |-> TRUE, ok |-> TRUE, attempt |-> attempt, text |-> <<>>]

(* return Err(e) for the e of the attempt in hand *)
ReturnErr == [returned |-> TRUE, ok |-> FALSE, attempt |-> attempt, text |-> result.text]

NoSummary == [printed |-> FALSE, installed |-> 0]

ExecParked ==
    /\ language = "python"
    /\ command = [form |-> "inline", file |-> <<>>]
    /\ script = [k \in 1..MaxAttempts |-> [ok |-> TRUE, stderr |-> <<>>]]
    /\ pc = "parked"
    /\ attempt = 0
    /\ installed_packages = {}
    /\ last_error_package = NoPackage
    /\ stuck_count = 0
    /\ result = Ok
    /\ deps = <<>>
    /\ dep_i = 0
    /\ any_new = FALSE
    /\ outcome = NoOutcome
    /\ summary = NoSummary
    /\ attempts_log = <<>>
    /\ install_log = <<>>

ExecInit ==
    /\ language \in ExecLanguages
    /\ command \in Commands(language)
    /\ script \in [1..MaxAttempts -> ChildOutcomes(language)]
    /\ pc = "start"
    /\ attempt = 0
    /\ installed_packages = {}
    /\ last_error_package = NoPackage
    /\ stuck_count = 0
    /\ result = Ok
    /\ deps = <<>>
    /\ dep_i = 0
    /\ any_new = FALSE
    /\ outcome = NoOutcome
    /\ summary = NoSummary
    /\ attempts_log = <<>>
    /\ install_log = <<>>
    /\ platform = "linux-x86_64"
    /\ MgrFresh
    /\ DetParked
    /\ InstParked
    /\ EnvParked /\ PmParked

loopVars == << installed_packages, last_error_package, stuck_count, deps, dep_i, any_new >>

(* ensure_runtime and ensure_python_env, once, before the loop; either can  *)
(* fail, and execute then returns that error.                               *)
ResolveRuntime ==
    /\ pc = "start"
    /\ \E ok \in BOOLEAN :
        IF ok THEN pc' = "loop" /\ outcome' = outcome
        ELSE /\ pc' = "done"
             /\ outcome' = [returned |-> TRUE, ok |-> FALSE, attempt |-> 0,
                            text |-> <<Noise("ensure_runtime failed")>>]
    /\ UNCHANGED << pureVars, mgrVars, language, command, script, attempt, result, summary, attempts_log,
                    install_log, loopVars >>

(* One pass of the loop up to the await of execute_inline / execute_file.   *)
RunAttempt ==
    /\ pc = "loop"
    /\ attempt < MaxAttempts
    /\ attempt' = attempt + 1
    /\ \E exists \in BOOLEAN :
        LET child == script[attempt + 1]
            ran == command.form = "inline" \/ exists
            r == IF command.form = "inline" THEN execute_inline(child)
                 ELSE execute_file(command.file, exists, child)
        IN  /\ command.form = "inline" => exists
            /\ result' = r
            /\ attempts_log' = Append(attempts_log,
                    [ran |-> ran, ok |-> r.ok,
                     stderr |-> IF ran THEN child.stderr ELSE <<>>,
                     parsed |-> <<>>, classified |-> FALSE, deps |-> <<>>,
                     installs_before |-> Len(install_log)])
    /\ pc' = "match"
    /\ UNCHANGED << pureVars, mgrVars, language, command, script, outcome, summary, install_log, loopVars >>

(* match result { Ok(_) => ... } *)
ReturnSuccess ==
    /\ pc = "match"
    /\ result.ok
    /\ summary' = IF attempt > 1
                  THEN [printed |-> TRUE, installed |-> Cardinality(installed_packages)]
                  ELSE summary
    /\ outcome' = ReturnOk
    /\ pc' = "done"
    /\ UNCHANGED << pureVars, mgrVars, language, command, script, attempt, result, attempts_log, install_log,
                    loopVars >>

PropagateFatalRetry == pc' = "loop" /\ outcome' = outcome

(* `else { return Err(e) }`: not a dependency error.                         *)
PropagateFatal == pc' = "done" /\ outcome' = ReturnErr

(* match result { Err(e) => ... }: classify the failure.                    *)
ClassifyFailure ==
    /\ pc = "match"
    /\ ~result.ok
    /\ LET text == error_msg(result)
           found == parse_error(language, text)
       IN  /\ attempts_log' = [attempts_log EXCEPT ![attempt] =
                    [@ EXCEPT !.parsed = text, !.classified = TRUE, !.deps = found]]
           /\ IF found # <<>>
              THEN /\ deps' = found
                   /\ dep_i' = 1
                   /\ any_new' = FALSE
                   /\ pc' = "deps"
                   /\ outcome' = outcome
              ELSE /\ PropagateFatal
                   /\ UNCHANGED << deps, dep_i, any_new >>
    /\ UNCHANGED << pureVars, mgrVars, language, command, script, attempt, result, summary, install_log,
                    installed_packages, last_error_package, stuck_count >>

OnInstallResultRecordsAlways(ok, package) ==
    /\ installed_packages' = installed_packages \cup {package}
    /\ dep_i' = dep_i + 1
    /\ pc' = pc
    /\ outcome' = outcome

OnInstallResultPropagates(ok, package) ==
    /\ installed_packages' = IF ok THEN installed_packages \cup {package}
                             ELSE installed_packages
    /\ IF ok THEN dep_i' = dep_i + 1 /\ pc' = pc /\ outcome' = outcome
       ELSE dep_i' = dep_i /\ pc' = "done" /\ outcome' = ReturnErr

(* match auto_install_dependency(..).await: Ok inserts the package, Err      *)
(* prints the failure; either way the for loop goes on to the next dep.      *)
OnInstallResult(ok, package) ==
    /\ installed_packages' = IF ok THEN installed_packages \cup {package}
                             ELSE installed_packages
    /\ dep_i' = dep_i + 1
    /\ pc' = pc
    /\ outcome' = outcome

(* One iteration of `for dep in &deps`.                                     *)
ProcessDep ==
    /\ pc = "deps"
    /\ dep_i <= Len(deps)
    /\ LET dep == deps[dep_i]
           same == last_error_package # NoPackage /\ last_error_package = dep.package
           stuck == IF last_error_package = NoPackage THEN stuck_count
                    ELSE IF same THEN stuck_count + 1 ELSE 0
       IN  /\ stuck_count' = stuck
           /\ IF same /\ stuck >= StuckThreshold
              THEN /\ pc' = "done"
                   /\ outcome' = ReturnErr
                   /\ UNCHANGED << last_error_package, installed_packages, any_new, dep_i,
                                   install_log >>
              ELSE /\ last_error_package' = dep.package
                   /\ IF AlreadyInstalled(dep.package)
                      THEN /\ dep_i' = dep_i + 1
                           /\ pc' = pc
                           /\ outcome' = outcome
                           /\ UNCHANGED << installed_packages, any_new, install_log >>
                      ELSE /\ any_new' = TRUE
                           /\ \E ok \in InstallOutcomes(dep.language) :
                                /\ install_log' = Append(install_log,
                                        [package |-> dep.package, ok |-> ok,
                                         attempt |-> attempt])
                                /\ OnInstallResult(ok, dep.package)
    /\ UNCHANGED << pureVars, mgrVars, language, command, script, attempt, result, summary, attempts_log, deps >>

(* After the for loop: the zero-progress rule, then `continue`.             *)
EndPass ==
    /\ pc = "deps"
    /\ dep_i > Len(deps)
    /\ LET stuck == IF any_new THEN stuck_count ELSE stuck_count + 1
       IN  /\ stuck_count' = stuck
           /\ IF ~any_new /\ stuck >= StuckThreshold
              THEN pc' = "done" /\ outcome' = ReturnErr
              ELSE pc' = "loop" /\ outcome' = outcome
    /\ UNCHANGED << pureVars, mgrVars, language, command, script, attempt, result, summary, attempts_log,
                    install_log, installed_packages, last_error_package, deps, dep_i,
                    any_new >>

(***************************************************************************)
(* RuntimeManager::ensure_runtime / install_runtime and                    *)
(* RuntimeDownloader::download, one action per step between awaits          *)
(***************************************************************************)
Ret(ok, val) == [done |-> TRUE, ok |-> ok, val |-> val]

Bump(c, field) == io' = [io EXCEPT ![c][field] = @ + 1]

IndexedNever(l) == FALSE

(* installed.read().await.get(language) is Some                             *)
Indexed(l) == l \in DOMAIN installed

ReturnErrTo(c, msg) ==
    /\ mpc' = [mpc EXCEPT ![c] = "returned"]
    /\ ret' = [ret EXCEPT ![c] = Ret(FALSE, msg)]

DownloadOkThenRegister(c) ==
    /\ mpc' = [mpc EXCEPT ![c] =
                IF call[c].from = "ensure_runtime" THEN "register" ELSE "returned"]
    /\ ret' = IF call[c].from = "ensure_runtime" THEN ret
              ELSE [ret EXCEPT ![c] = Ret(TRUE, call[c].url.file)]

(* download returns Ok(dest): install_runtime goes on to the installer, a   *)
(* direct caller gets the path.                                             *)
DownloadOk(c) ==
    IF call[c].from = "ensure_runtime"
    THEN mpc' = [mpc EXCEPT ![c] = "install"] /\ ret' = ret
    ELSE /\ mpc' = [mpc EXCEPT ![c] = "returned"]
         /\ ret' = [ret EXCEPT ![c] = Ret(TRUE, call[c].url.file)]

Dest(c) == call[c].url.file

ReadGuardKept(c) == [lock EXCEPT !.readers = @ \cup {c}]

(* `{ let installed = self.installed.read().await; .. }`: the read guard is  *)
(* taken and dropped at the end of the block, before install_runtime.        *)
ReadGuardDropped(c) == lock

EnsureRuntime(c) ==
    /\ mpc[c] \in {"idle", "returned"}
    /\ calls_made < MaxCalls
    /\ lock.writer = "none"
    /\ lock' = ReadGuardDropped(c)
    /\ calls_made' = calls_made + 1
    /\ \E l \in RequestLanguages :
        /\ call' = [call EXCEPT ![c] =
                [NoCall EXCEPT !.language = l, !.from = "ensure_runtime",
                               !.indexed = l \in DOMAIN installed,
                               !.inflight =
                                    /\ l \in DOMAIN installed
                                    /\ \E o \in Callers \ {c} :
                                            /\ call[o].from = "ensure_runtime"
                                            /\ mpc[o] \notin {"idle", "returned"},
                               !.prior = IF l \in DOMAIN returned THEN {returned[l]} ELSE {}]]
        /\ IF Indexed(l)
           THEN /\ mpc' = [mpc EXCEPT ![c] = "returned"]
                /\ ret' = [ret EXCEPT ![c] = Ret(TRUE, installed[l])]
                /\ returned' = Insert(returned, l, installed[l])
           ELSE /\ mpc' = [mpc EXCEPT ![c] = "install_runtime"]
                /\ ret' = [ret EXCEPT ![c] = NoRet]
                /\ returned' = returned
    /\ io' = [io EXCEPT ![c] = NoIo]
    /\ UNCHANGED << pureVars, execVars, platform, cache, runtimes, installed, restarts >>

(* install_runtime up to the call of download: registry, platform, URL.     *)
LookupLanguage(c) ==
    /\ mpc[c] = "install_runtime"
    /\ LET def == get_language(call[c].language)
           info == IF def.ok THEN get_download_url(def.val, platform) ELSE def
       IN  IF def.ok /\ info.ok
           THEN /\ call' = [call EXCEPT ![c].url = info.val.url,
                                        ![c].expected = info.val.sha256]
                /\ mpc' = [mpc EXCEPT ![c] = "dl_check"]
                /\ ret' = ret
           ELSE /\ ReturnErrTo(c, info.val)
                /\ call' = call
    /\ UNCHANGED << pureVars, execVars, platform, cache, runtimes, installed, io, returned,
                    calls_made, restarts, lock >>

(* A direct call of RuntimeDownloader::download(url, expected_sha).         *)
Download(c) ==
    /\ mpc[c] \in {"idle", "returned"}
    /\ calls_made < MaxCalls
    /\ calls_made' = calls_made + 1
    /\ \E l \in {"python"}, e \in {"", Sha256("good")} :
        call' = [call EXCEPT ![c] =
                    [NoCall EXCEPT !.from = "download",
                                   !.url = Registry[l].downloads[platform].url,
                                   !.expected = e]]
    /\ mpc' = [mpc EXCEPT ![c] = "dl_check"]
    /\ ret' = [ret EXCEPT ![c] = NoRet]
    /\ io' = [io EXCEPT ![c] = NoIo]
    /\ UNCHANGED << pureVars, execVars, platform, cache, runtimes, installed, returned, restarts, lock >>

ExistsNever(file) == FALSE

remove_file_kept(file) == cache

(* std::fs::remove_file(&dest) *)
remove_file(file) == [cache EXCEPT ![file] = Absent]

(* dest.exists() *)
Exists(file) == cache[file] # Absent

(* download: the cached file, if any, is verified and returned or removed.  *)
DlCheckCache(c) ==
    /\ mpc[c] = "dl_check"
    /\ call' = [call EXCEPT ![c].entry = cache[Dest(c)]]
    /\ IF Exists(Dest(c))
       THEN IF verify_checksum(cache[Dest(c)], call[c].expected)
            THEN DownloadOk(c) /\ UNCHANGED << cache, io >>
            ELSE /\ cache' = remove_file(Dest(c))
                 /\ Bump(c, "delete")
                 /\ mpc' = [mpc EXCEPT ![c] = "dl_get"]
                 /\ ret' = ret
       ELSE /\ mpc' = [mpc EXCEPT ![c] = "dl_get"]
            /\ UNCHANGED << cache, io, ret >>
    /\ UNCHANGED << pureVars, execVars, platform, runtimes, installed, returned, calls_made,
                    restarts, lock >>

(* reqwest::get(url).await?: fails, or yields a response.                   *)
DlGet(c) ==
    /\ mpc[c] = "dl_get"
    /\ Bump(c, "fetch")
    /\ \E r \in ServerContents \cup {"error"} :
        IF r = "error"
        THEN ReturnErrTo(c, "request failed") /\ call' = call
        ELSE /\ call' = [call EXCEPT ![c].fetched = r]
             /\ mpc' = [mpc EXCEPT ![c] = "dl_create"]
             /\ ret' = ret
    /\ UNCHANGED << pureVars, execVars, platform, cache, runtimes, installed, returned, calls_made,
                    restarts, lock >>

(* tokio::fs::File::create(&dest) *)
DlCreate(c) ==
    /\ mpc[c] = "dl_create"
    /\ cache' = [cache EXCEPT ![Dest(c)] = Partial]
    /\ Bump(c, "write")
    /\ mpc' = [mpc EXCEPT ![c] = "dl_stream"]
    /\ UNCHANGED << pureVars, execVars, platform, runtimes, installed, call, ret, returned,
                    calls_made, restarts, lock >>

(* The chunk loop: the stream ends, or a chunk fails and `?` returns with   *)
(* the file as far as it was written.                                       *)
DlStream(c) ==
    /\ mpc[c] = "dl_stream"
    /\ \E ok \in BOOLEAN :
        IF ok
        THEN /\ cache' = [cache EXCEPT ![Dest(c)] = call[c].fetched]
             /\ call' = [call EXCEPT ![c].streamed = TRUE]
             /\ mpc' = [mpc EXCEPT ![c] = "dl_verify"]
             /\ ret' = ret
        ELSE /\ ReturnErrTo(c, "stream failed")
             /\ UNCHANGED << cache, call >>
    /\ UNCHANGED << pureVars, execVars, platform, runtimes, installed, io, returned, calls_made,
                    restarts, lock >>

OnFreshMismatchRetry(c) == mpc' = [mpc EXCEPT ![c] = "dl_get"] /\ ret' = ret

(* anyhow::bail!("Checksum verification failed") *)
OnFreshMismatch(c) == ReturnErrTo(c, "Checksum verification failed")

(* verify_checksum of the fresh file; on mismatch remove it and bail.       *)
DlVerify(c) ==
    /\ mpc[c] = "dl_verify"
    /\ IF call[c].expected # "" /\ ~Exists(Dest(c))
       THEN ReturnErrTo(c, "read failed") /\ UNCHANGED << cache, io >>
       ELSE IF ~verify_checksum(cache[Dest(c)], call[c].expected)
       THEN /\ cache' = remove_file(Dest(c))
            /\ Bump(c, "delete")
            /\ OnFreshMismatch(c)
       ELSE DownloadOk(c) /\ UNCHANGED << cache, io >>
    /\ UNCHANGED << pureVars, execVars, platform, runtimes, installed, call, returned, calls_made,
                    restarts, lock >>

CallDir(c) == RuntimeDirName(call[c].language, Registry[call[c].language].version)

(* installer.install(&archive_path, &runtime_dir).await?                    *)
Install(c) ==
    /\ mpc[c] = "install"
    /\ \E written \in BOOLEAN :
        LET r == install(Dest(c), cache[Dest(c)], runtimes[CallDir(c)], written)
        IN  /\ written => ~r.ok
            /\ runtimes' = [runtimes EXCEPT ![CallDir(c)] = r.dir]
            /\ IF r.ok
               THEN mpc' = [mpc EXCEPT ![c] = "find_executable"] /\ ret' = ret
               ELSE ReturnErrTo(c, "extraction failed")
    /\ Bump(c, "extract")
    /\ UNCHANGED << pureVars, execVars, platform, cache, installed, call, returned, calls_made,
                    restarts, lock >>

FindExecutable(c) ==
    /\ mpc[c] = "find_executable"
    /\ LET r == find_executable(CallDir(c), runtimes[CallDir(c)])
       IN  IF r.ok
           THEN /\ call' = [call EXCEPT ![c].executable = r.val]
                /\ mpc' = [mpc EXCEPT ![c] = "verify_runtime"]
                /\ ret' = ret
           ELSE ReturnErrTo(c, r.val) /\ call' = call
    /\ UNCHANGED << pureVars, execVars, platform, cache, runtimes, installed, io, returned,
                    calls_made, restarts, lock >>

(* The state of the file at an executable path <<dirname, "bin" | "root">>.  *)
ExeState(exe) ==
    LET dir == runtimes[exe[1]]
    IN  IF ~dir.exists THEN "none" ELSE IF exe[2] = "bin" THEN dir.bin ELSE dir.root

(* verify_runtime: run `<executable> --version`.                            *)
VerifyRuntime(c) ==
    /\ mpc[c] = "verify_runtime"
    /\ Bump(c, "probe")
    /\ IF ExeState(call[c].executable) = "runnable"
       THEN mpc' = [mpc EXCEPT ![c] = "register"] /\ ret' = ret
       ELSE ReturnErrTo(c, "Runtime verification failed")
    /\ UNCHANGED << pureVars, execVars, platform, cache, runtimes, installed, call, returned,
                    calls_made, restarts, lock >>

(* installed.write().await.insert(language, info); Ok(info)                 *)
Register(c) ==
    /\ mpc[c] = "register"
    /\ lock = NoLock
    /\ LET l == call[c].language
           info == RuntimeInfo(l, Registry[l].version, CallDir(c), call[c].executable)
       IN  /\ installed' = Insert(installed, l, info)
           /\ ret' = [ret EXCEPT ![c] = Ret(TRUE, info)]
           /\ returned' = Insert(returned, l, info)
    /\ mpc' = [mpc EXCEPT ![c] = "returned"]
    /\ UNCHANGED << pureVars, execVars, platform, cache, runtimes, call, io, calls_made, restarts, lock >>

(* The process ends and a new one starts: RuntimeManager::new() rebuilds     *)
(* the index from the directories on disk.                                   *)
Restart ==
    /\ \A c \in Callers : mpc[c] \in {"idle", "returned"}
    /\ restarts < MaxRestarts
    /\ restarts' = restarts + 1
    /\ installed' \in ScanResults(runtimes)
    /\ mpc' = [c \in Callers |-> "idle"]
    /\ call' = [c \in Callers |-> NoCall]
    /\ ret' = [c \in Callers |-> NoRet]
    /\ io' = [c \in Callers |-> NoIo]
    /\ returned' = << >>
    /\ lock' = NoLock
    /\ UNCHANGED << pureVars, execVars, platform, cache, runtimes, calls_made >>

(* RuntimeManager::new() on a runtimes root as it is found: the scan, whose  *)
(* error `?` hands to the caller of new().                                   *)
New(c) ==
    /\ mpc[c] = "new"
    /\ LET r == scan_installed(runtimes)
       IN  IF r.ok
           THEN /\ installed' \in r.val
                /\ ret' = [ret EXCEPT ![c] = Ret(TRUE, "manager")]
           ELSE /\ installed' = installed
                /\ ret' = [ret EXCEPT ![c] = Ret(FALSE, r.val)]
    /\ mpc' = [mpc EXCEPT ![c] = "returned"]
    /\ UNCHANGED << pureVars, execVars, platform, cache, runtimes, call, io, returned,
                    calls_made, restarts, lock >>

(***************************************************************************)
(* RuntimeInstaller::install on archives given entry by entry.  A path is   *)
(* the sequence of its components ("/" for the root, ".." for the parent);  *)
(* a file tree maps the paths below dest to nodes.  Modes are Option<u32>:  *)
(* <<>> for None, <<m>> for Some(m).                                        *)
(***************************************************************************)
MaxEntries == 2

ArchiveEntry(path, kind, content, mode) ==
    [path |-> path, kind |-> kind, content |-> content, mode |-> mode]

Node(kind, content, mode) == [kind |-> kind, content |-> content, mode |-> mode]

(* Path::extension: the part after the last '.', None without a '.' and for  *)
(* a name whose only '.' is its first character.                             *)
extension(name) ==
    IF Len(name) < 2 \/ (Len(name) = 2 /\ name[1] = "") THEN <<>>
    ELSE <<name[Len(name)]>>

(* dest.join(name) resolved: an absolute name replaces dest, a ".." with     *)
(* nothing left to pop leaves it.                                            *)
RECURSIVE Walk(_, _, _)
Walk(stack, outside, rest) ==
    IF rest = <<>> THEN [outside |-> outside, path |-> stack]
    ELSE IF Head(rest) = "/" THEN Walk(<<>>, TRUE, Tail(rest))
    ELSE IF Head(rest) = ".."
         THEN IF stack = <<>> THEN Walk(<<>>, TRUE, Tail(rest))
              ELSE Walk(SubSeq(stack, 1, Len(stack) - 1), outside, Tail(rest))
    ELSE Walk(Append(stack, Head(rest)), outside, Tail(rest))

Prefixes(path) == {SubSeq(path, 1, n) : n \in 1..(Len(path) - 1)}

(* create_dir_all(parent) succeeds unless a file is in the way.              *)
ParentsOk(tree, path) ==
    \A q \in Prefixes(path) : q \in DOMAIN tree => tree[q].kind = "dir"

(* Directories made on the way get the default mode 0o755 (decimal 493).     *)
WithParents(tree, path) ==
    [q \in DOMAIN tree \cup Prefixes(path) |->
        IF q \in DOMAIN tree THEN tree[q] ELSE Node("dir", "", 493)]

Failed(st) == [st EXCEPT !.ok = FALSE]

(* One pass of extract_zip's loop.  Every entry that is not a directory is   *)
(* written with File::create and io::copy; a stored mode is applied with     *)
(* set_permissions (chmod keeps the low 12 bits), otherwise a new file has   *)
(* 0o644 (decimal 420) and a new directory 0o755.                            *)
zip_entry(st, e) ==
    LET t == Walk(<<>>, FALSE, e.path)
        kind == IF e.kind = "dir" THEN "dir" ELSE "file"
        old == IF t.path \in DOMAIN st.tree THEN <<st.tree[t.path]>> ELSE <<>>
        mode == IF e.mode # <<>> THEN e.mode[1] % 4096
                ELSE IF old # <<>> THEN old[1].mode
                ELSE IF kind = "dir" THEN 493 ELSE 420
    IN  IF t.outside THEN [st EXCEPT !.outside = @ \cup {e.path}]
        ELSE IF t.path = <<>> THEN IF kind = "dir" THEN st ELSE Failed(st)
        ELSE IF ~ParentsOk(st.tree, t.path) THEN Failed(st)
        ELSE IF old # <<>> /\ (old[1].kind = "dir") # (kind = "dir") THEN Failed(st)
        ELSE [st EXCEPT !.tree =
                Insert(WithParents(st.tree, t.path), t.path,
                       Node(kind, IF kind = "dir" THEN "" ELSE e.content, mode))]

RECURSIVE zip_entries(_, _)
zip_entries(st, entries) ==
    IF entries = <<>> \/ ~st.ok THEN st
    ELSE zip_entries(zip_entry(st, Head(entries)), Tail(entries))

(* tar::Archive::unpack, one entry: an entry with a ".." component is        *)
(* skipped, a leading root is dropped, links are made as links, and the      *)
(* header's mode is applied masked to 0o777.                                 *)
tar_entry(st, e) ==
    LET path == SelectSeq(e.path, LAMBDA c : c # "/")
        old == IF path \in DOMAIN st.tree THEN <<st.tree[path]>> ELSE <<>>
    IN  IF \E i \in 1..Len(e.path) : e.path[i] = ".." THEN st
        ELSE IF path = <<>> THEN st
        ELSE IF ~ParentsOk(st.tree, path) THEN Failed(st)
        ELSE IF old # <<>> /\ (old[1].kind = "dir") # (e.kind = "dir") THEN Failed(st)
        ELSE [st EXCEPT !.tree =
                Insert(WithParents(st.tree, path), path,
                       Node(e.kind, IF e.kind = "dir" THEN "" ELSE e.content,
                            e.mode[1] % 512))]

RECURSIVE tar_entries(_, _)
tar_entries(st, entries) ==
    IF entries = <<>> \/ ~st.ok THEN st
    ELSE tar_entries(tar_entry(st, Head(entries)), Tail(entries))

Extracting(tree) == [ok |-> TRUE, tree |-> tree, outside |-> {}]

(* ZipArchive::new fails on a file that is not a zip archive.                *)
extract_zip(archive, tree) ==
    IF archive.format # "zip" THEN Failed(Extracting(tree))
    ELSE zip_entries(Extracting(tree), archive.entries)

(* GzDecoder / XzDecoder fail on the first read of a file in another format. *)
extract_tar_gz(archive, tree) ==
    IF archive.format # "tar.gz" THEN Failed(Extracting(tree))
    ELSE tar_entries(Extracting(tree), archive.entries)

extract_tar_xz(archive, tree) ==
    IF archive.format # "tar.xz" THEN Failed(Extracting(tree))
    ELSE tar_entries(Extracting(tree), archive.entries)

extractor_for_zip_only(ext) == IF ext = <<"zip">> THEN "extract_zip" ELSE "none"

(* match extension { "zip" => .., "gz" | "tgz" => .., "xz" => .., _ => bail } *)
extractor_for(ext) ==
    CASE ext = <<"zip">> -> "extract_zip"
      [] ext \in {<<"gz">>, <<"tgz">>} -> "extract_tar_gz"
      [] ext = <<"xz">> -> "extract_tar_xz"
      [] OTHER -> "none"

(* Archive file names, as their '.'-separated parts.                         *)
ArchiveNames ==
    { <<"rt", "zip">>, <<"rt", "tar", "gz">>, <<"rt", "tgz">>, <<"rt", "tar", "xz">>,
      <<"rt", "gz">>, <<"rt", "7z">>, <<"rt", "ZIP">>, <<"rt">>, <<"", "zip">> }

(* Entries with a stored mode: 0o755 = 493, 0o644 = 420, 0o777 = 511.        *)
ModedEntries ==
    { ArchiveEntry(<<"bin">>, "dir", "", <<493>>),
      ArchiveEntry(<<"bin", "python">>, "file", "elf", <<493>>),
      ArchiveEntry(<<"bin", "python">>, "file", "elf2", <<420>>),
      ArchiveEntry(<<"README">>, "file", "text", <<420>>),
      ArchiveEntry(<<"bin", "python3">>, "symlink", "python", <<511>>),
      ArchiveEntry(<<"..", "evil">>, "file", "x", <<420>>),
      ArchiveEntry(<<"/", "tmp", "evil">>, "file", "x", <<420>>) }

(* A zip entry made on a system without Unix modes stores none; a tar        *)
(* header always has one.                                                    *)
EntriesOf(format) ==
    CASE format = "zip" ->
            ModedEntries \cup {ArchiveEntry(<<"bin", "python">>, "file", "elf", <<>>)}
      [] format = "other" -> {}
      [] OTHER -> ModedEntries

Archives ==
    UNION {{[name |-> n, format |-> f, entries |-> es] :
                n \in ArchiveNames,
                es \in UNION {[1..k -> EntriesOf(f)] : k \in 0..MaxEntries}} :
            f \in {"zip", "tar.gz", "tar.xz", "other"}}

(* RuntimeInstaller::install(archive, dest)                                 *)
InstallerInstall ==
    /\ inst_pc = "call"
    /\ LET ext == extension(inst_archive.name)
           which == extractor_for(ext)
           r == CASE which = "extract_zip" -> extract_zip(inst_archive, inst_dest.tree)
                  [] which = "extract_tar_gz" -> extract_tar_gz(inst_archive, inst_dest.tree)
                  [] which = "extract_tar_xz" -> extract_tar_xz(inst_archive, inst_dest.tree)
                  [] OTHER -> Failed(Extracting(inst_dest.tree))
       IN  /\ inst_dest' = [exists |-> TRUE, tree |-> r.tree]
           /\ inst_outside' = r.outside
           /\ inst_ret' =
                [ok |-> r.ok,
                 error |-> IF r.ok THEN ""
                           ELSE IF ext = <<>> THEN "Unknown archive type"
                           ELSE IF which = "none" THEN "Unsupported archive type"
                           ELSE "extraction failed",
                 extractor |-> which]
    /\ inst_pc' = "returned"
    /\ UNCHANGED << execVars, mgrVars, detVars, envVars, pmVars, inst_archive >>

(***************************************************************************)
(* DependencyDetector::parse_error called directly                         *)
(***************************************************************************)
ParseError ==
    /\ det_pc = "call"
    /\ det_deps' = parse_error(det_language, det_stderr)
    /\ det_pc' = "returned"
    /\ UNCHANGED << execVars, mgrVars, instVars, envVars, pmVars, det_language, det_stderr >>

(***************************************************************************)
(* Specifications                                                          *)
(***************************************************************************)
(***************************************************************************)
(* CodeExecutor::set_runtime_env: the environment of the spawned child.  A  *)
(* Command inherits the parent's environment; cmd.env overrides a variable. *)
(***************************************************************************)
set_runtime_env(lang, overlay, ambient) ==
    CASE lang = "python" ->
            IF overlay
            THEN [ambient EXCEPT !["PYTHONPATH"] =
                    IF @ = <<>> THEN <<"env_path/lib/python3.11/site-packages">>
                    ELSE <<"env_path/lib/python3.11/site-packages">> \o @]
            ELSE ambient
      [] lang = "node" ->
            IF overlay THEN [ambient EXCEPT !["NODE_PATH"] = <<"env_path/node_modules">>]
            ELSE ambient
      [] lang = "ruby" ->
            IF overlay THEN [ambient EXCEPT !["GEM_HOME"] = <<"env_path/gems">>]
            ELSE ambient
      [] lang = "go" -> [ambient EXCEPT !["GOPATH"] = <<"env_path">>]
      [] OTHER -> ambient

(***************************************************************************)
(* CodeExecutor::auto_install_dependency for node, ruby and go.  Paths are  *)
(* sequences of components below the base directory.                        *)
(***************************************************************************)
(* RuntimeInfo.path of a language: <base>/runtimes/<language>-<version>     *)
runtime_path(lang) ==
    <<"runtimes", Join(RuntimeDirName(lang, Registry[lang].version), "-")>>

(* execute: env_path is <runtime.path>/piebash_env for python and            *)
(* runtime.path itself for every other language.                             *)
env_path_of(lang) ==
    IF lang = "python" THEN runtime_path(lang) \o <<"piebash_env">> ELSE runtime_path(lang)

(* env_path.parent().unwrap().join("bin").join(<npm | gem | go>)             *)
package_manager_path(dep, env_path) ==
    SubSeq(env_path, 1, Len(env_path) - 1) \o <<"bin", dep.package_manager>>

(* install_node_package / install_ruby_package / install_go_package: bail    *)
(* if the package manager is not at the path, else run it.                   *)
AutoInstallDependency ==
    /\ pm_pc = "call"
    /\ LET exe == package_manager_path(pm_dep, env_path_of(pm_dep.language))
       IN  IF exe \notin pm_files
           THEN pm_ret' = [ok |-> FALSE, error |-> pm_dep.package_manager \o " not found",
                           ran |-> <<>>]
           ELSE \E ok \in BOOLEAN :
                    pm_ret' = [ok |-> ok,
                               error |-> IF ok THEN "" ELSE "install failed",
                               ran |-> exe]
    /\ pm_pc' = "done"
    /\ UNCHANGED << execVars, mgrVars, detVars, instVars, envVars, pm_dep, pm_files >>

SetRuntimeEnv ==
    /\ env_pc = "call"
    /\ env_child' = set_runtime_env(env_language, env_overlay, env_ambient)
    /\ env_pc' = "spawned"
    /\ UNCHANGED << execVars, mgrVars, detVars, instVars, pmVars, env_language,
                    env_overlay, env_ambient >>

ExecNext ==
    \/ ResolveRuntime
    \/ RunAttempt
    \/ ReturnSuccess
    \/ ClassifyFailure
    \/ ProcessDep
    \/ EndPass

(* One execute call.                                                        *)
Spec == ExecInit /\ [][ExecNext]_vars

MgrInit == ExecParked /\ DetParked /\ InstParked /\ EnvParked /\ PmParked /\ platform \in HostPlatforms /\ MgrFresh

MgrNext ==
    \/ EnsureRuntime("c1")
    \/ LookupLanguage("c1")
    \/ DlCheckCache("c1")
    \/ DlGet("c1")
    \/ DlCreate("c1")
    \/ DlStream("c1")
    \/ DlVerify("c1")
    \/ Install("c1")
    \/ FindExecutable("c1")
    \/ VerifyRuntime("c1")
    \/ Register("c1")
    \/ Restart

(* Sequential ensure_runtime calls on one manager, across process restarts. *)
MgrSpec == MgrInit /\ [][MgrNext]_vars

DlInit == ExecParked /\ DetParked /\ InstParked /\ EnvParked /\ PmParked /\ platform = "linux-x86_64" /\ MgrFresh

DlNext ==
    \/ Download("c1")
    \/ DlCheckCache("c1")
    \/ DlGet("c1")
    \/ DlCreate("c1")
    \/ DlStream("c1")
    \/ DlVerify("c1")

(* Sequential direct calls of RuntimeDownloader::download.                  *)
DlSpec == DlInit /\ [][DlNext]_vars

ConcInit == ExecParked /\ DetParked /\ InstParked /\ EnvParked /\ PmParked /\ platform = "linux-x86_64" /\ MgrFresh

ConcNext ==
    \/ \E c \in Callers : EnsureRuntime(c)
    \/ \E c \in Callers : LookupLanguage(c)
    \/ \E c \in Callers : DlCheckCache(c)
    \/ \E c \in Callers : DlGet(c)
    \/ \E c \in Callers : DlCreate(c)
    \/ \E c \in Callers : DlStream(c)
    \/ \E c \in Callers : DlVerify(c)
    \/ \E c \in Callers : Install(c)
    \/ \E c \in Callers : FindExecutable(c)
    \/ \E c \in Callers : VerifyRuntime(c)
    \/ \E c \in Callers : Register(c)
    \/ Restart

(* Two tasks calling ensure_runtime on clones of one manager (the index is  *)
(* an Arc<RwLock<..>> shared by the clones); the tasks interleave at awaits. *)
ConcSpec == ConcInit /\ [][ConcNext]_vars

DetInit ==
    /\ ExecParked
    /\ InstParked
    /\ EnvParked /\ PmParked
    /\ platform = "linux-x86_64"
    /\ MgrFresh
    /\ det_language \in DetLanguages
    /\ det_stderr \in UNION {[1..n -> DetSegments(det_language)] : n \in 0..MaxText}
    /\ det_deps = <<>>
    /\ det_pc = "call"

(* One parse_error call on a language and a text.                           *)
DetSpec == DetInit /\ [][ParseError]_vars

(* The runtimes root as a process can find it at startup: directories left  *)
(* by earlier runs and by anything else that writes there.                   *)
ScanInit ==
    /\ ExecParked
    /\ DetParked
    /\ InstParked
    /\ EnvParked /\ PmParked
    /\ platform = "linux-x86_64"
    /\ cache = [f \in CacheFiles |-> Absent]
    /\ runtimes \in
        { r \in [ DirNames \cup {<<"python", "2", "7">>, <<"lua", "5.4">>, <<"tmp">>,
                                <<NotUtf8, "1">>}
                  -> {NoDir, EmptyDir, [EmptyDir EXCEPT !.bin = "runnable"],
                      [EmptyDir EXCEPT !.root = "broken"]} ] :
            /\ r[<<"node", "20.10.0">>] = NoDir
            /\ \A n \in DOMAIN r \ {<<"python", "2", "7">>} :
                    r[n] \in {NoDir, [EmptyDir EXCEPT !.bin = "runnable"]} }
    /\ installed = << >>
    /\ mpc = [c \in Callers |-> IF c = "c1" THEN "new" ELSE "idle"]
    /\ call = [c \in Callers |-> IF c = "c1" THEN [NoCall EXCEPT !.from = "new"] ELSE NoCall]
    /\ ret = [c \in Callers |-> NoRet]
    /\ io = [c \in Callers |-> NoIo]
    /\ returned = << >>
    /\ calls_made = 0
    /\ restarts = 0
    /\ lock = NoLock

ScanNext ==
    \/ New("c1")
    \/ (call["c1"].from = "new" => ret["c1"].ok) /\ EnsureRuntime("c1")
    \/ LookupLanguage("c1")
    \/ DlCheckCache("c1")
    \/ DlGet("c1")
    \/ DlCreate("c1")
    \/ DlStream("c1")
    \/ DlVerify("c1")
    \/ Install("c1")
    \/ FindExecutable("c1")
    \/ VerifyRuntime("c1")
    \/ Register("c1")

(* One RuntimeManager::new() call on such a root and, if it gave a manager,  *)
(* ensure_runtime calls on it.                                               *)
ScanSpec == ScanInit /\ [][ScanNext]_vars

(* The executor's environment when it spawns a child; ensure_python_env has  *)
(* created python's site-packages directory before the first spawn.          *)
EnvInit ==
    /\ ExecParked
    /\ DetParked
    /\ InstParked
    /\ platform = "linux-x86_64"
    /\ MgrFresh
    /\ env_language \in {"python", "node", "ruby", "go", "rust"}
    /\ env_overlay \in IF env_language = "python" THEN {TRUE} ELSE BOOLEAN
    /\ env_ambient \in [SearchVars -> {<<>>, <<"/usr/lib/site">>}]
    /\ env_child = NoEnv
    /\ env_pc = "call"
    /\ PmParked

(* One set_runtime_env call.                                                 *)
EnvSpec == EnvInit /\ [][SetRuntimeEnv]_vars

(* A dependency of a language with a package-manager executable, and the    *)
(* places such an executable can be: in the runtime's bin directory, at the  *)
(* top of the runtime directory, or in <base>/runtimes/bin.                  *)
PmInit ==
    /\ ExecParked
    /\ DetParked
    /\ InstParked
    /\ EnvParked
    /\ platform = "linux-x86_64"
    /\ MgrFresh
    /\ pm_dep \in {MissingDependency(l[1], p, l[2]) :
                    l \in {<<"node", "npm">>, <<"ruby", "gem">>, <<"go", "go">>},
                    p \in {"left-pad", "rake"}}
    /\ pm_files \in SUBSET { runtime_path(pm_dep.language) \o <<"bin", pm_dep.package_manager>>,
                             runtime_path(pm_dep.language) \o <<pm_dep.package_manager>>,
                             <<"runtimes", "bin", pm_dep.package_manager>> }
    /\ pm_ret = NoPmRet
    /\ pm_pc = "call"

(* One auto_install_dependency call.                                         *)
PmSpec == PmInit /\ [][AutoInstallDependency]_vars

InstInit ==
    /\ ExecParked
    /\ DetParked
    /\ EnvParked /\ PmParked
    /\ platform = "linux-x86_64"
    /\ MgrFresh
    /\ inst_archive \in Archives
    /\ inst_dest \in {NoDest, [exists |-> TRUE, tree |-> <<>>]}
    /\ inst_outside = {}
    /\ inst_ret = NoInstRet
    /\ inst_pc = "call"

(* One install call on an archive and an empty or absent destination.       *)
InstSpec == InstInit /\ [][InstallerInstall]_vars

(***************************************************************************)
(* Claims about the self-healing loop                                      *)
(***************************************************************************)
InstallCalls(p) == {i \in 1..Len(install_log) : install_log[i].package = p}

Packages(ds) == {ds[i].package : i \in 1..Len(ds)}

ExecPackages == {PkgA(l) : l \in ExecLanguages} \cup {PkgB(l) : l \in ExecLanguages}

(* C1: the text classified after a failed run of the child is the child's    *)
(* error output, so a missing-module message in that output is classified    *)
(* as DependencyFound with the dependencies the detector finds in it.        *)
C1_ClassifiesChildOutput ==
    \A k \in 1..Len(attempts_log) :
        LET a == attempts_log[k]
        IN  (a.ran /\ ~a.ok /\ a.classified) =>
                /\ a.parsed = a.stderr
                /\ a.deps = parse_error(language, a.stderr)

AllCiteOnly(p) ==
    /\ attempts_log # <<>>
    /\ \A k \in 1..Len(attempts_log) :
        /\ ~attempts_log[k].ok
        /\ k < Len(attempts_log) => attempts_log[k].classified
        /\ attempts_log[k].classified => Packages(attempts_log[k].deps) = {p}

(* C3: when every attempt fails and is classified as missing the one package *)
(* p, at most 2 installs of p are attempted and the call has returned the    *)
(* failure by the time the third failure is processed.                       *)
C3_SamePackageAborts ==
    \A p \in ExecPackages :
        AllCiteOnly(p) =>
            /\ Cardinality(InstallCalls(p)) <= 2
            /\ attempt <= 3
            /\ pc = "done" => ~outcome.ok
            /\ attempt = 3 => pc \in {"match", "done"} \/ (pc = "deps" /\ dep_i = 1)

C3_Witness ==
    /\ pc = "done"
    /\ ~outcome.ok
    /\ attempt = 3
    /\ AllCiteOnly(PkgA(language))
    /\ attempts_log[3].classified
    /\ Cardinality(InstallCalls(PkgA(language))) = 2

CitesOnly(child, lang, k) == ~child.ok /\ child.stderr = <<Cite(lang, k)>>

(* C4: a call whose runs fail citing A, then citing B, then succeed, with    *)
(* every install succeeding, installs A then B once each, returns success    *)
(* and reports 2 installed packages.                                         *)
C4_TwoPackagesThenSuccess ==
    ( /\ command.form = "inline"
      /\ CitesOnly(script[1], language, 1)
      /\ CitesOnly(script[2], language, 2)
      /\ script[3].ok
      /\ \A i \in 1..Len(install_log) : install_log[i].ok
      /\ pc = "done"
      /\ outcome.attempt > 0 )
    => /\ outcome.ok
       /\ [i \in 1..Len(install_log) |-> install_log[i].package]
            = <<PkgA(language), PkgB(language)>>
       /\ summary = [printed |-> TRUE, installed |-> 2]

(* C5: after a failure that parse_error does not classify, execute has       *)
(* returned that attempt's error, and made no further attempt and no         *)
(* install.                                                                  *)
C5_UnclassifiedIsFatal ==
    \A k \in 1..Len(attempts_log) :
        LET a == attempts_log[k]
        IN  (~a.ok /\ a.classified /\ a.deps = <<>>) =>
                /\ pc = "done"
                /\ outcome = [returned |-> TRUE, ok |-> FALSE, attempt |-> k,
                              text |-> a.parsed]
                /\ Len(attempts_log) = k
                /\ attempt = k
                /\ Len(install_log) = a.installs_before

(* An unclassified failure after an earlier classified one with an install.  *)
C5_Witness ==
    /\ pc = "done"
    /\ attempt >= 2
    /\ attempts_log[attempt].classified
    /\ ~attempts_log[attempt].ok
    /\ attempts_log[attempt].deps = <<>>
    /\ install_log # <<>>

(***************************************************************************)
(* Claims about the runtime manager                                        *)
(***************************************************************************)
(* C6: every RuntimeInfo ensure_runtime returns, from the scan or from an    *)
(* install, names an executable that exists on disk and passes the           *)
(* --version probe.                                                          *)
C6_ReturnedExecutableRunnable ==
    \A c \in Callers :
        (mpc[c] = "returned" /\ call[c].from = "ensure_runtime" /\ ret[c].ok)
            => ExeState(ret[c].val.executable) = "runnable"

(* C7: an ensure_runtime call that follows a successful one for the same     *)
(* language on the same manager returns the same RuntimeInfo from the index, *)
(* without download, extraction or probe.                                    *)
C7_SecondCallServedFromIndex ==
    \A c \in Callers :
        (call[c].from = "ensure_runtime" /\ call[c].prior # {}) =>
            /\ mpc[c] = "returned"
            /\ ret[c].ok
            /\ ret[c].val \in call[c].prior
            /\ io[c] = NoIo

(* The first call installed the runtime in this process.                     *)
C7_Witness ==
    /\ restarts = 0
    /\ mpc["c1"] = "returned"
    /\ call["c1"].prior # {}
    /\ ret["c1"].ok
    /\ cache[Registry[call["c1"].language].downloads[platform].url.file] # Absent

(***************************************************************************)
(* Claims about the downloader                                             *)
(***************************************************************************)
StaleEntry(c) ==
    /\ call[c].expected # ""
    /\ call[c].entry # Absent
    /\ Sha256(call[c].entry) # call[c].expected

FreshMismatch(c) ==
    /\ call[c].streamed
    /\ mpc[c] = "returned"
    /\ Sha256(call[c].fetched) # call[c].expected

(* C8: a download call that finds a cached file with the wrong hash deletes  *)
(* it once and makes exactly one HTTP fetch; when the fetched file is wrong  *)
(* too the call fails with the checksum error, still after one fetch.        *)
C8_StaleCacheOneRefetch ==
    \A c \in Callers :
        StaleEntry(c) =>
            /\ io[c].fetch <= 1
            /\ io[c].delete = IF FreshMismatch(c) THEN 2 ELSE 1
            /\ mpc[c] = "returned" => io[c].fetch = 1
            /\ FreshMismatch(c) => ret[c] = Ret(FALSE, "Checksum verification failed")

C8_Witness ==
    /\ StaleEntry("c1")
    /\ FreshMismatch("c1")
    /\ io["c1"].fetch = 1
    /\ ~ret["c1"].ok

(* C9: a path download returns for a non-empty expected checksum names a     *)
(* file whose SHA-256 is the expected one.                                   *)
C9_ReturnedFileMatches ==
    \A c \in Callers :
        (call[c].from = "download" /\ mpc[c] = "returned" /\ ret[c].ok
            /\ call[c].expected # "")
        => /\ cache[ret[c].val] # Absent
           /\ Sha256(cache[ret[c].val]) = call[c].expected

(* A fresh file accepted after a stale cached one was removed.               *)
C9_Witness ==
    /\ StaleEntry("c1")
    /\ mpc["c1"] = "returned"
    /\ ret["c1"].ok
    /\ io["c1"].fetch = 1

(* C10: a cached file that verifies (or with no checksum configured) is      *)
(* returned with no HTTP request and is left as it was.                      *)
C10_CacheHitNoNetwork ==
    \A c \in Callers :
        ( /\ call[c].from = "download"
          /\ call[c].entry # Absent
          /\ call[c].expected = "" \/ Sha256(call[c].entry) = call[c].expected )
        => /\ mpc[c] = "returned"
           /\ ret[c] = Ret(TRUE, call[c].url.file)
           /\ io[c] = NoIo
           /\ cache[call[c].url.file] = call[c].entry

C10_Witness ==
    /\ mpc["c1"] = "returned"
    /\ call["c1"].entry = "good"
    /\ call["c1"].expected = Sha256("good")
    /\ ret["c1"].ok

(***************************************************************************)
(* Claims about concurrent callers and the index                           *)
(***************************************************************************)
InInstallRuntime(c) ==
    /\ call[c].from = "ensure_runtime"
    /\ mpc[c] \in {"install_runtime", "dl_check", "dl_get", "dl_create", "dl_stream",
                    "dl_verify", "install", "find_executable", "verify_runtime",
                    "register"}

Transferring(c) ==
    /\ call[c].from = "ensure_runtime"
    /\ mpc[c] \in {"dl_get", "dl_create", "dl_stream", "dl_verify", "install"}

(* C11: the index check at the entry of ensure_runtime is the only gate into *)
(* install_runtime: a call installs exactly when the index had no entry for  *)
(* its language at that check, whatever install another caller has in        *)
(* progress; so two first uses of one language can both be installing it.    *)
C11_IndexCheckIsTheOnlyGate ==
    \A c \in Callers :
        call[c].from = "ensure_runtime" =>
            /\ InInstallRuntime(c) => ~call[c].indexed
            /\ call[c].indexed => mpc[c] = "returned" /\ ret[c].ok /\ io[c] = NoIo

(* Both callers are downloading or extracting the same unindexed language.   *)
C11_Witness ==
    /\ \A c \in Callers : Transferring(c)
    /\ call["c1"].language = call["c2"].language
    /\ call["c1"].language \notin DOMAIN installed

(* C12: within one process no step of the manager removes a key of the       *)
(* index: a language that has an entry keeps one.                            *)
C12_IndexOnlyGrows ==
    [][restarts' = restarts => DOMAIN installed \subseteq DOMAIN installed']_vars

(* The index holds one entry from the startup scan and one from an install   *)
(* made in this process.                                                     *)
C12_Witness ==
    /\ restarts = 1
    /\ \E c \in Callers :
        /\ mpc[c] = "returned"
        /\ io[c].extract = 1
        /\ ret[c].ok
        /\ call[c].language \in DOMAIN installed
        /\ DOMAIN installed # {call[c].language}

(***************************************************************************)
(* Claims about the dependency detector                                    *)
(***************************************************************************)
Matches(pats) == SelectSeq(det_stderr, LAMBDA seg : seg.pat \in pats)

C13_Named ==
    [m \in {"cv2", "PIL", "sklearn", "yaml", "bs4"} |->
        CASE m = "cv2" -> "opencv-python"
          [] m = "PIL" -> "Pillow"
          [] m = "sklearn" -> "scikit-learn"
          [] m = "yaml" -> "PyYAML"
          [] m = "bs4" -> "beautifulsoup4"]

C13_Expected(m) ==
    IF m[1] \in DOMAIN C13_Named THEN C13_Named[m[1]]
    ELSE IF \E i \in 1..Len(PythonMapping) : PythonMapping[i][1] = m[1]
         THEN PythonMapping[CHOOSE i \in 1..Len(PythonMapping) : PythonMapping[i][1] = m[1]][2]
    ELSE m[1]

(* C13: for python, the i-th module-not-found message of the text yields a   *)
(* dependency whose package is the table entry of the import name's first    *)
(* dotted part when the table has one, and that first part otherwise.        *)
C13_PythonPackageNames ==
    (det_pc = "returned" /\ det_language = "python") =>
        LET c1 == Matches({"py_module_not_found"})
        IN  \A i \in 1..Len(c1) :
                /\ i <= Len(det_deps)
                /\ det_deps[i].package = C13_Expected(c1[i].cap)
                /\ det_deps[i].package_manager = "pip"

(* A dotted import found in the table and one that is not.                   *)
C13_Witness ==
    /\ det_pc = "returned"
    /\ det_language = "python"
    /\ det_stderr = << Seg("py_module_not_found", <<"PIL", "Image">>),
                       Seg("py_module_not_found", <<"requests", "adapters">>) >>
    /\ [i \in 1..Len(det_deps) |-> det_deps[i].package] = <<"Pillow", "requests">>

(* C14: for node, a text whose cannot-find-module and cannot-resolve matches *)
(* all name core modules yields no dependency.                               *)
C14_CoreModulesYieldNothing ==
    ( /\ det_pc = "returned"
      /\ det_language \in {"node", "nodejs"}
      /\ \A i \in 1..Len(det_stderr) :
            det_stderr[i].pat # "noise" => det_stderr[i].cap[1] \in NodeCoreModules )
    => det_deps = <<>>

C14_Witness ==
    /\ det_pc = "returned"
    /\ det_language = "node"
    /\ det_stderr = << Seg("node_cannot_find_module", <<"fs">>),
                       Seg("node_cant_resolve", <<"path">>) >>
    /\ det_deps = <<>>

(* C15: for go, the dependencies returned are exactly one per distinct       *)
(* package path cited by either pattern, with that path as the package.      *)
C15_GoOnePerDistinctPackage ==
    (det_pc = "returned" /\ det_language = "go") =>
        LET hits == Matches({"go_not_in_goroot", "go_no_required_module"})
            cited == {hits[i].cap[1] : i \in 1..Len(hits)}
        IN  /\ {det_deps[i].package : i \in 1..Len(det_deps)} = cited
            /\ Len(det_deps) = Cardinality(cited)

(* C16: the list one parse_error call returns has no two dependencies with   *)
(* the same package.                                                         *)
C16_NoDuplicatePackages ==
    det_pc = "returned" =>
        \A i, j \in 1..Len(det_deps) : i # j => det_deps[i].package # det_deps[j].package

(***************************************************************************)
(* Claims about the installer                                              *)
(***************************************************************************)
(* C17: install picks the extractor from the file name's extension alone     *)
(* (zip; gz or tgz; xz), whatever the file holds; with any other extension   *)
(* or none it returns an unsupported-archive error and extracts nothing.     *)
C17_DispatchByExtension ==
    inst_pc = "returned" =>
        LET n == inst_archive.name
            has == Len(n) >= 2 /\ ~(Len(n) = 2 /\ n[1] = "")
            last == IF has THEN n[Len(n)] ELSE ""
        IN  /\ last = "zip" => inst_ret.extractor = "extract_zip"
            /\ last \in {"gz", "tgz"} => inst_ret.extractor = "extract_tar_gz"
            /\ last = "xz" => inst_ret.extractor = "extract_tar_xz"
            /\ last \notin {"zip", "gz", "tgz", "xz"} =>
                    /\ ~inst_ret.ok
                    /\ inst_ret.extractor = "none"
                    /\ inst_ret.error \in {"Unsupported archive type", "Unknown archive type"}
                    /\ inst_dest.tree = <<>>
                    /\ inst_outside = {}

(* A zip archive under a name with another extension is refused unread.      *)
C17_Witness ==
    /\ inst_pc = "returned"
    /\ inst_archive.name = <<"rt", "7z">>
    /\ inst_archive.format = "zip"
    /\ inst_archive.entries # <<>>
    /\ inst_ret.error = "Unsupported archive type"
    /\ inst_dest = [exists |-> TRUE, tree |-> <<>>]

ExtractAs(f, entries) ==
    LET a == [name |-> <<>>, format |-> f, entries |-> entries]
    IN  CASE f = "zip" -> extract_zip(a, <<>>)
          [] f = "tar.gz" -> extract_tar_gz(a, <<>>)
          [] f = "tar.xz" -> extract_tar_xz(a, <<>>)

(* C18: when install has succeeded on an archive whose entries every format  *)
(* can carry, the tree under dest is the tree that the same entries give     *)
(* when installed from each of the three formats.                            *)
C18_SameTreeForAllFormats ==
    ( /\ inst_pc = "returned"
      /\ inst_ret.ok
      /\ \A i \in 1..Len(inst_archive.entries) : inst_archive.entries[i].mode # <<>> )
    => \A f \in {"zip", "tar.gz", "tar.xz"} :
            /\ ExtractAs(f, inst_archive.entries).ok
            /\ ExtractAs(f, inst_archive.entries).tree = inst_dest.tree

(***************************************************************************)
(* Claims about the stuck rule                                             *)
(***************************************************************************)
PassEnded(k) == attempt > k \/ (attempt = k /\ pc \in {"loop", "done"})

(* Pass k classified a failure and handed no package to the installer, all   *)
(* its packages being installed already.                                     *)
NoSubmission(k) ==
    /\ k <= Len(attempts_log)
    /\ attempts_log[k].classified
    /\ attempts_log[k].deps # <<>>
    /\ PassEnded(k)
    /\ \A i \in 1..Len(install_log) : install_log[i].attempt # k
    /\ Packages(attempts_log[k].deps) \subseteq installed_packages

(* C19: after two consecutive classification passes that submitted no        *)
(* package, the call has returned the failure, at the end of the second of   *)
(* them at the latest.                                                       *)
C19_TwoIdlePassesAbort ==
    \A k \in 1..MaxAttempts :
        (NoSubmission(k) /\ NoSubmission(k + 1)) =>
            /\ pc = "done"
            /\ ~outcome.ok
            /\ outcome.attempt <= k + 1

(* C20: a stuck abort never ends the iteration that directly follows an      *)
(* iteration in which a package was installed.                               *)
C20_NoAbortRightAfterProgress ==
    ( /\ pc = "done"
      /\ ~outcome.ok
      /\ outcome.attempt >= 2
      /\ attempts_log[outcome.attempt].deps # <<>> )
    => ~\E i \in 1..Len(install_log) :
            install_log[i].attempt = outcome.attempt - 1 /\ install_log[i].ok

(***************************************************************************)
(* Claims about installs within one execute call                           *)
(***************************************************************************)
Succeeded(n) == {install_log[i].package : i \in {j \in 1..n : install_log[j].ok}}

(* C22: the installed set holds exactly the packages whose install returned  *)
(* success, and no package is handed to auto_install_dependency once it is   *)
(* in the installed set.                                                     *)
C22_InstalledIffInstallSucceeded ==
    /\ installed_packages = Succeeded(Len(install_log))
    /\ \A j \in 1..Len(install_log) : install_log[j].package \notin Succeeded(j - 1)

(* A second pass has ended in which a package whose install failed was       *)
(* submitted again and an installed one was skipped.                         *)
C22_Witness ==
    /\ pc = "deps"
    /\ attempt >= 2
    /\ dep_i > Len(deps)
    /\ \E i \in 1..Len(install_log) :
        /\ ~install_log[i].ok
        /\ install_log[i].attempt = attempt
        /\ install_log[i].package \notin installed_packages
    /\ \E j \in 1..Len(deps) :
        /\ deps[j].package \in installed_packages
        /\ \A i \in InstallCalls(deps[j].package) : install_log[i].attempt < attempt

SubmittedIn(k) == SelectSeq(install_log, LAMBDA e : e.attempt = k)

(* The installs of pass k follow the order of the pass's dependencies.       *)
InDetectionOrder(k) ==
    LET s == SubmittedIn(k)
        ds == attempts_log[k].deps
    IN  \A a, b \in 1..Len(s) :
            a < b => \E x, y \in 1..Len(ds) :
                        /\ x < y
                        /\ ds[x].package = s[a].package
                        /\ ds[y].package = s[b].package

(* Every dependency of pass k was submitted in the pass or had been          *)
(* installed before it.                                                      *)
AllProcessed(k) ==
    \A j \in 1..Len(attempts_log[k].deps) :
        \E i \in 1..Len(install_log) :
            /\ install_log[i].package = attempts_log[k].deps[j].package
            /\ \/ install_log[i].attempt = k
               \/ install_log[i].ok /\ install_log[i].attempt < k

(* C23: a failed install does not end the call: its pass goes on through     *)
(* the remaining dependencies in detection order, and after the pass the     *)
(* loop runs again, unless the stuck rule returned the failure.              *)
C23_InstallFailureDoesNotAbort ==
    \A i \in 1..Len(install_log) :
        ~install_log[i].ok =>
            LET k == install_log[i].attempt
            IN  /\ InDetectionOrder(k)
                /\ \/ attempt = k /\ pc = "deps"
                   \/ attempt = k /\ pc = "done" /\ ~outcome.ok
                        /\ stuck_count >= StuckThreshold
                   \/ (attempt > k \/ (attempt = k /\ pc = "loop")) /\ AllProcessed(k)

(* After a failed install the next dependency of the same pass was           *)
(* submitted, and a further attempt was made.                                *)
C23_Witness ==
    \E i \in 1..Len(install_log) :
        /\ ~install_log[i].ok
        /\ i < Len(install_log)
        /\ install_log[i + 1].attempt = install_log[i].attempt
        /\ install_log[i + 1].package # install_log[i].package
        /\ attempt > install_log[i].attempt

(* C24: a successful return has printed the number of attempts made and the  *)
(* number of packages installed, the latter being the size of the            *)
(* installed set.                                                            *)
C24_SuccessReportsCounts ==
    (pc = "done" /\ outcome.ok) =>
        /\ summary.printed
        /\ summary.installed = Cardinality(installed_packages)
        /\ "attempts" \in DOMAIN summary
        /\ summary.attempts = outcome.attempt

(***************************************************************************)
(* Claims about install_runtime                                            *)
(***************************************************************************)
(* C25: within install_runtime each step is entered from the step before     *)
(* it -- lookup of the registry entry and of the platform's download, then   *)
(* download, extraction, executable location, the --version probe, the       *)
(* insertion -- and the index changes only by the insertion of a call that   *)
(* has extracted, located and probed.                                        *)
C25_StepsInOrder ==
    [][ /\ \A c \in Callers :
            (call'[c].from = "ensure_runtime" /\ mpc'[c] # mpc[c]) =>
                CASE mpc'[c] = "dl_check" ->
                        /\ mpc[c] = "install_runtime"
                        /\ call'[c].url =
                            Registry[call[c].language].downloads[platform].url
                  [] mpc'[c] \in {"dl_get", "dl_create", "dl_stream", "dl_verify"} ->
                        mpc[c] \in {"dl_check", "dl_get", "dl_create", "dl_stream"}
                  [] mpc'[c] = "install" ->
                        /\ mpc[c] \in {"dl_check", "dl_verify"}
                        /\ cache[call[c].url.file] # Absent
                  [] mpc'[c] = "find_executable" ->
                        mpc[c] = "install" /\ io'[c].extract = 1
                  [] mpc'[c] = "verify_runtime" ->
                        mpc[c] = "find_executable" /\ call'[c].executable # <<>>
                  [] mpc'[c] = "register" ->
                        mpc[c] = "verify_runtime" /\ io'[c].probe = 1
                  [] OTHER -> TRUE
        /\ (installed' # installed /\ restarts' = restarts) =>
            \E c \in Callers :
                /\ mpc[c] = "register"
                /\ io[c].extract = 1
                /\ io[c].probe = 1
                /\ call[c].executable # <<>>
                /\ DOMAIN installed' = DOMAIN installed \cup {call[c].language}
      ]_vars

(* A call has fetched, extracted, probed and inserted its language.          *)
C25_Witness ==
    /\ mpc["c1"] = "returned"
    /\ call["c1"].from = "ensure_runtime"
    /\ ret["c1"].ok
    /\ io["c1"].fetch = 1
    /\ io["c1"].extract = 1
    /\ io["c1"].probe = 1
    /\ call["c1"].language \in DOMAIN installed

(* C26: an ensure_runtime call in which a step of the acquisition failed     *)
(* returns an error, and the language of a call that returned an error has   *)
(* no entry in the index.                                                    *)
C26_FailureLeavesNoEntry ==
    \A c \in Callers :
        (call[c].from = "ensure_runtime" /\ mpc[c] = "returned") =>
            /\ ~ret[c].ok => call[c].language \notin DOMAIN installed
            /\ ret[c].ok =>
                \/ io[c] = NoIo
                \/ /\ io[c].extract = 1
                   /\ io[c].probe = 1
                   /\ cache[call[c].url.file] \notin {Absent, Partial}
                   /\ ExeState(ret[c].val.executable) = "runnable"

(* The probe failed: the call returned the error, the directory stays on     *)
(* disk and the index has no entry for the language.                         *)
C26_Witness ==
    /\ mpc["c1"] = "returned"
    /\ call["c1"].from = "ensure_runtime"
    /\ ret["c1"] = Ret(FALSE, "Runtime verification failed")
    /\ io["c1"].probe = 1
    /\ runtimes[CallDir("c1")].exists
    /\ call["c1"].language \notin DOMAIN installed

NoDownloadFor(l) == l \notin DOMAIN Registry \/ platform \notin DOMAIN Registry[l].downloads

(* C27: a call for a language the registry does not list, or lists without  *)
(* a download for the host's platform key, does no fetch, cache write,       *)
(* extraction or probe, adds nothing to the index and returns an error.      *)
C27_UnknownFailsBeforeAnyIo ==
    \A c \in Callers :
        (call[c].from = "ensure_runtime" /\ NoDownloadFor(call[c].language)) =>
            /\ mpc[c] \in {"install_runtime", "returned"}
            /\ io[c] = NoIo
            /\ call[c].language \notin DOMAIN installed
            /\ mpc[c] = "returned" => ~ret[c].ok
            /\ platform \notin PlatformKeys =>
                /\ \A f \in DOMAIN cache : cache[f] = Absent
                /\ \A n \in DOMAIN runtimes : runtimes[n] = NoDir

(* A registered language has no download under the host's platform key.     *)
C27_Witness ==
    /\ mpc["c1"] = "returned"
    /\ call["c1"].language = "python"
    /\ ret["c1"] = Ret(FALSE, "No download available for platform")
    /\ io["c1"] = NoIo

(***************************************************************************)
(* Claims about the startup scan                                           *)
(***************************************************************************)
(* A directory the scan is to pass over: its name has no hyphen or is not    *)
(* text, its language is not registered, or no candidate path has a file.    *)
Skipped(n) ==
    \/ \E i \in 1..Len(n) : n[i] = NotUtf8
    \/ Len(n) < 2
    \/ n[1] \notin DOMAIN Registry
    \/ ~find_executable(n, runtimes[n]).ok

(* C28: RuntimeManager::new() returns a manager whatever directories the     *)
(* runtimes root holds, and no directory the scan is to pass over has an     *)
(* entry in the index.                                                       *)
C28_ScanSkipsBadDirectories ==
    \A c \in Callers :
        (call[c].from = "new" /\ mpc[c] = "returned") =>
            /\ ret[c].ok
            /\ \A n \in DOMAIN runtimes :
                Skipped(n) => \A l \in DOMAIN installed : installed[l].path # n

(***************************************************************************)
(* Claims about a failed fresh download                                    *)
(***************************************************************************)
(* C29: when download returns the checksum error for the file it has just    *)
(* fetched, the cache holds no file under the URL's file name.               *)
C29_MismatchLeavesNoFile ==
    \A c \in Callers :
        ( /\ call[c].from = "download"
          /\ mpc[c] = "returned"
          /\ ret[c] = Ret(FALSE, "Checksum verification failed") )
        => /\ call[c].streamed
           /\ io[c].write = 1
           /\ cache[call[c].url.file] = Absent

(* Nothing was cached, the fetched file was written in full and had the      *)
(* wrong hash.                                                               *)
C29_Witness ==
    /\ call["c1"].from = "download"
    /\ call["c1"].entry = Absent
    /\ call["c1"].fetched = "broken"
    /\ FreshMismatch("c1")
    /\ io["c1"].delete = 1
    /\ cache[call["c1"].url.file] = Absent

(***************************************************************************)
(* Claims about the child's environment                                    *)
(***************************************************************************)
(* The variable the language's runtime reads its module search path from.    *)
SearchVarsOf(lang) ==
    CASE lang = "python" -> {"PYTHONPATH"}
      [] lang = "node" -> {"NODE_PATH"}
      [] lang = "ruby" -> {"GEM_HOME"}
      [] lang = "go" -> {"GOPATH"}
      [] OTHER -> {}

(* C30: the search path the child is given is the one any call with the      *)
(* same language and overlay directory gives it, whatever the caller's own   *)
(* search-path variables hold.                                               *)
C30_ChildPathIgnoresAmbient ==
    env_pc = "spawned" =>
        \A other \in [SearchVars -> {<<>>, <<"/usr/lib/site">>}] :
            \A v \in SearchVarsOf(env_language) :
                env_child[v] = set_runtime_env(env_language, env_overlay, other)[v]

(***************************************************************************)
(* Claims about the package manager, the platform key and the index lock   *)
(***************************************************************************)
(* C31: the package manager run for a node, ruby or go dependency is a file  *)
(* inside the runtime's own directory, and it is run whenever the runtime    *)
(* has it in its bin directory.                                              *)
C31_PackageManagerInsideRuntime ==
    pm_pc = "done" =>
        LET home == runtime_path(pm_dep.language)
        IN  /\ pm_ret.ran # <<>> => IsPrefix(home, pm_ret.ran)
            /\ (home \o <<"bin", pm_dep.package_manager>>) \in pm_files => pm_ret.ran # <<>>

(* C32: the host's detect_platform() value is a platform key of the          *)
(* registry, so no call for a registered language ends with the platform     *)
(* error.                                                                    *)
C32_PlatformIsRegistryKey ==
    /\ platform \in PlatformKeys
    /\ \A c \in Callers :
        (call[c].from = "ensure_runtime" /\ call[c].language \in DOMAIN Registry)
        => ret[c] # Ret(FALSE, "No download available for platform")

C34_PartialNeverReturned ==
    \A c \in Callers :
        (call[c].from = "download" /\ mpc[c] = "returned" /\ ret[c].ok)
        => cache[ret[c].val] # Partial

(* C35: no call has its download back, the installer next, for a file that   *)
(* the other caller of the same language is still writing.                   *)
C35_NoFileSharedWhileWritten ==
    \A c, o \in Callers :
        ( /\ c # o
          /\ call[c].from = "ensure_runtime"
          /\ call[o].from = "ensure_runtime"
          /\ call[c].language = call[o].language
          /\ mpc[c] = "install" )
        => /\ mpc[o] # "dl_stream"
           /\ cache[Dest(c)] \notin {Absent, Partial}

(* C36: install writes nothing outside the destination directory.            *)
C36_NothingOutsideDest == inst_outside = {}

(***************************************************************************)
(* Claims about the version of a returned runtime                          *)
(***************************************************************************)
(* C37: a RuntimeInfo that ensure_runtime returns for a language carries     *)
(* the version the registry pins for it.                                     *)
C37_ReturnedVersionIsPinned ==
    \A c \in Callers :
        (call[c].from = "ensure_runtime" /\ mpc[c] = "returned" /\ ret[c].ok)
        => ret[c].val.version = Registry[call[c].language].version

(***************************************************************************)
(* Claims about termination of the loop                                    *)
(***************************************************************************)
Cited == UNION {Packages(attempts_log[k].deps) : k \in 1..Len(attempts_log)}

(* Every install so far succeeded and no failure cited a package that was    *)
(* installed at an earlier attempt.                                          *)
InstallsHelp ==
    /\ \A i \in 1..Len(install_log) : install_log[i].ok
    /\ \A k \in 1..Len(attempts_log) :
        \A i \in 1..Len(install_log) :
            install_log[i].attempt < k =>
                install_log[i].package \notin Packages(attempts_log[k].deps)

(* C38: while every install succeeds and no failure cites a package          *)
(* installed earlier, the call makes at most one attempt more than the       *)
(* number of distinct packages cited, and ends in success or in a failure    *)
(* that is not classified as a missing dependency.                           *)
C38_TerminatesWithinBound ==
    InstallsHelp =>
        /\ attempt <= Cardinality(Cited) + 1
        /\ (pc = "done" /\ outcome.attempt >= 1) =>
                outcome.ok \/ attempts_log[outcome.attempt].deps = <<>>

====
